---------------------------- MODULE Spec2Model ----------------------------
(***************************************************************************)
(* Model of crates/livesplit-hotkey/src/key_code.rs: the KeyCode           *)
(* vocabulary, its classifier (classify), baseline labeler (as_str),       *)
(* layout-aware resolver (resolve), name parser (FromStr::from_str) and    *)
(* derived serialization.                                                  *)
(*                                                                         *)
(* Encoding.                                                               *)
(*  - A KeyCode value is its discriminant: the 0-based position of the     *)
(*    variant in the enum declaration.  V("KeyA") resolves a variant       *)
(*    identifier of the source to that value.                              *)
(*  - Key names handled by from_str / Serialize are ASCII and are TLA+     *)
(*    strings, compared exactly as Rust compares &str.                     *)
(*  - Display strings (as_str, resolve, the layout query) hold non-ASCII   *)
(*    text and are sequences of Unicode scalar values, one per Rust char.  *)
(*  - Option<T> is <<>> (None) or <<x>> (Some(x)).                         *)
(*  - Result<KeyCode, ()> is <<"Ok", k>> or <<"Err">>.                     *)
(***************************************************************************)
EXTENDS Integers, Sequences, FiniteSets, TLC

VARIABLES
  op,        \* the operation that ran last
  in_text,   \* the &str handed to the last from_str call
  parsed,    \* the Result of the last from_str call (<<>> before any call)
  key,       \* the KeyCode handed to the last serialize/classify/as_str/resolve call
  out_text,  \* the text emitted by the last serialization
  class,     \* the KeyCodeClass returned by the last classify call
  label,     \* the string returned by the last as_str / resolve call
  queried,   \* the keys passed to platform::try_resolve during the last call
  layout,    \* the keyboard layout that is active on the platform
  depth,     \* length of the current parse/serialize chain
  recent,    \* the last two resolve calls: the layout active at the call and the result
  threads    \* per thread: the call in progress, its argument and its result

vars ==
  <<op, in_text, parsed, key, out_text, class, label, queried, layout, depth, recent,
    threads>>

\* Longest chain of alternating from_str / serialize calls on one value.
MaxChain == 4

\* Number of threads that call classify, as_str and from_str concurrently.
NumThreads == 2

-----------------------------------------------------------------------------
(* Option and Result values *)

None == <<>>
Some(x) == <<x>>
Ok(k) == <<"Ok", k>>
Err == <<"Err">>

Min(S) == CHOOSE x \in S : \A y \in S : x <= y

RECURSIVE Flatten(_)
Flatten(ss) == IF ss = <<>> THEN <<>> ELSE Head(ss) \o Flatten(Tail(ss))

-----------------------------------------------------------------------------
(* enum KeyCode: the variants in declaration order, under the section       *)
(* comments of the declaration.                                             *)

KeyCodeDecl ==
  <<
    \* line 28
    [section |-> "Writing System Keys",
     variants |-> <<
       "Backquote", "Backslash", "Backspace", "BracketLeft", "BracketRight", "Comma", "Digit0",
       "Digit1", "Digit2", "Digit3", "Digit4", "Digit5", "Digit6", "Digit7", "Digit8",
       "Digit9", "Equal", "IntlBackslash", "IntlRo", "IntlYen", "KeyA", "KeyB", "KeyC", "KeyD",
       "KeyE", "KeyF", "KeyG", "KeyH", "KeyI", "KeyJ", "KeyK", "KeyL", "KeyM", "KeyN", "KeyO",
       "KeyP", "KeyQ", "KeyR", "KeyS", "KeyT", "KeyU", "KeyV", "KeyW", "KeyX", "KeyY", "KeyZ",
       "Minus", "Period", "Quote", "Semicolon", "Slash"
     >>],
    \* line 81
    [section |-> "Functional Keys",
     variants |-> <<
       "AltLeft", "AltRight", "CapsLock", "ContextMenu", "ControlLeft", "ControlRight",
       "Enter", "MetaLeft", "MetaRight", "ShiftLeft", "ShiftRight", "Space", "Tab"
     >>],
    \* line 96
    [section |-> "Functional Keys found on Japanese and Korean keyboards",
     variants |-> <<
       "Convert", "KanaMode", "Lang1", "Lang2", "Lang3", "Lang4", "Lang5", "NonConvert"
     >>],
    \* line 106
    [section |-> "Control Pad Section",
     variants |-> <<
       "Delete", "End", "Help", "Home", "Insert", "PageDown", "PageUp"
     >>],
    \* line 115
    [section |-> "Arrow Pad Section",
     variants |-> <<
       "ArrowDown", "ArrowLeft", "ArrowRight", "ArrowUp"
     >>],
    \* line 121
    [section |-> "Numpad Section",
     variants |-> <<
       "NumLock", "Numpad0", "Numpad1", "Numpad2", "Numpad3", "Numpad4", "Numpad5", "Numpad6",
       "Numpad7", "Numpad8", "Numpad9", "NumpadAdd", "NumpadBackspace", "NumpadClear",
       "NumpadClearEntry", "NumpadComma", "NumpadDecimal", "NumpadDivide", "NumpadEnter",
       "NumpadEqual", "NumpadHash", "NumpadMemoryAdd", "NumpadMemoryClear",
       "NumpadMemoryRecall", "NumpadMemoryStore", "NumpadMemorySubtract", "NumpadMultiply",
       "NumpadParenLeft", "NumpadParenRight", "NumpadStar", "NumpadSubtract"
     >>],
    \* line 154
    [section |-> "Function Section",
     variants |-> <<
       "Escape", "F1", "F2", "F3", "F4", "F5", "F6", "F7", "F8", "F9", "F10", "F11", "F12",
       "F13", "F14", "F15", "F16", "F17", "F18", "F19", "F20", "F21", "F22", "F23", "F24",
       "Fn", "FnLock", "PrintScreen", "ScrollLock", "Pause"
     >>],
    \* line 186
    [section |-> "Media Keys",
     variants |-> <<
       "BrowserBack", "BrowserFavorites", "BrowserForward", "BrowserHome", "BrowserRefresh",
       "BrowserSearch", "BrowserStop", "Eject", "LaunchApp1", "LaunchApp2", "LaunchMail",
       "MediaPlayPause", "MediaSelect", "MediaStop", "MediaTrackNext", "MediaTrackPrevious",
       "Power", "Sleep", "AudioVolumeDown", "AudioVolumeMute", "AudioVolumeUp", "WakeUp"
     >>],
    \* line 210
    [section |-> "Legacy, Non-Standard and Special Keys",
     variants |-> <<
       "Again", "Copy", "Cut", "Find", "Open", "Paste", "Props", "Select", "Undo"
     >>],
    \* line 221
    [section |-> "Gamepad Keys",
     variants |-> <<
       "Gamepad0", "Gamepad1", "Gamepad2", "Gamepad3", "Gamepad4", "Gamepad5", "Gamepad6",
       "Gamepad7", "Gamepad8", "Gamepad9", "Gamepad10", "Gamepad11", "Gamepad12", "Gamepad13",
       "Gamepad14", "Gamepad15", "Gamepad16", "Gamepad17", "Gamepad18", "Gamepad19"
     >>],
    \* line 243
    [section |-> "Chrome only Keys",
     variants |-> <<
       "BrightnessDown", "BrightnessUp", "DisplayToggleIntExt", "KeyboardLayoutSelect",
       "LaunchAssistant", "LaunchControlPanel", "LaunchScreenSaver", "MailForward",
       "MailReply", "MailSend", "MediaFastForward", "MediaPause", "MediaPlay", "MediaRecord",
       "MediaRewind", "PrivacyScreenToggle", "SelectTask", "ShowAllWindows", "ZoomToggle"
     >>]
  >>

\* Variant names in declaration order.
Variants == Flatten([i \in DOMAIN KeyCodeDecl |-> KeyCodeDecl[i].variants])

\* The values of the enum: discriminants 0 .. n-1.
KeyCode == 0 .. (Len(Variants) - 1)

\* The value a variant identifier of the source denotes.
V(id) == CHOOSE k \in KeyCode : Variants[k + 1] = id

\* Fault variant of Serialize: a digit key is written as its one-character
\* shorthand.
Serialize_shorthand(k) ==
  IF Variants[k + 1] = "Digit7" THEN "7" ELSE Variants[k + 1]

\* #[derive(serde::Serialize)] on a unit-only enum: a variant is written as
\* its name.
Serialize(k) == Variants[k + 1]

\* enum KeyCodeClass.
KeyCodeClassDecl ==
  <<"WritingSystem", "Functional", "ControlPad", "ArrowPad", "Numpad", "Function", "Media", "Legacy", "Gamepad", "NonStandard">>

KeyCodeClass == {KeyCodeClassDecl[i] : i \in DOMAIN KeyCodeClassDecl}

-----------------------------------------------------------------------------
(* KeyCode::as_str: one match arm per variant, <<variant, string literal>>. *)
(* The literal is given as its chars; the comment shows it with non-ASCII   *)
(* chars written \u{hex}.                                                   *)

as_str_arms ==
  <<
    <<V("Backquote"), <<96>>>>,  \* `
    <<V("Backslash"), <<92>>>>,  \* \
    <<V("Backspace"), <<9003>>>>,  \* \u{232b}
    <<V("BracketLeft"), <<91>>>>,  \* [
    <<V("BracketRight"), <<93>>>>,  \* ]
    <<V("Comma"), <<44>>>>,  \* ,
    <<V("Digit0"), <<48>>>>,  \* 0
    <<V("Digit1"), <<49>>>>,  \* 1
    <<V("Digit2"), <<50>>>>,  \* 2
    <<V("Digit3"), <<51>>>>,  \* 3
    <<V("Digit4"), <<52>>>>,  \* 4
    <<V("Digit5"), <<53>>>>,  \* 5
    <<V("Digit6"), <<54>>>>,  \* 6
    <<V("Digit7"), <<55>>>>,  \* 7
    <<V("Digit8"), <<56>>>>,  \* 8
    <<V("Digit9"), <<57>>>>,  \* 9
    <<V("Equal"), <<61>>>>,  \* =
    <<V("IntlBackslash"), <<73, 110, 116, 101, 114, 110, 97, 116, 105, 111, 110, 97, 108, 32, 66, 97, 99, 107, 115, 108, 97, 115, 104>>>>,  \* International Backslash
    <<V("IntlRo"), <<12429>>>>,  \* \u{308d}
    <<V("IntlYen"), <<165>>>>,  \* \u{a5}
    <<V("KeyA"), <<65>>>>,  \* A
    <<V("KeyB"), <<66>>>>,  \* B
    <<V("KeyC"), <<67>>>>,  \* C
    <<V("KeyD"), <<68>>>>,  \* D
    <<V("KeyE"), <<69>>>>,  \* E
    <<V("KeyF"), <<70>>>>,  \* F
    <<V("KeyG"), <<71>>>>,  \* G
    <<V("KeyH"), <<72>>>>,  \* H
    <<V("KeyI"), <<73>>>>,  \* I
    <<V("KeyJ"), <<74>>>>,  \* J
    <<V("KeyK"), <<75>>>>,  \* K
    <<V("KeyL"), <<76>>>>,  \* L
    <<V("KeyM"), <<77>>>>,  \* M
    <<V("KeyN"), <<78>>>>,  \* N
    <<V("KeyO"), <<79>>>>,  \* O
    <<V("KeyP"), <<80>>>>,  \* P
    <<V("KeyQ"), <<81>>>>,  \* Q
    <<V("KeyR"), <<82>>>>,  \* R
    <<V("KeyS"), <<83>>>>,  \* S
    <<V("KeyT"), <<84>>>>,  \* T
    <<V("KeyU"), <<85>>>>,  \* U
    <<V("KeyV"), <<86>>>>,  \* V
    <<V("KeyW"), <<87>>>>,  \* W
    <<V("KeyX"), <<88>>>>,  \* X
    <<V("KeyY"), <<89>>>>,  \* Y
    <<V("KeyZ"), <<90>>>>,  \* Z
    <<V("Minus"), <<45>>>>,  \* -
    <<V("Period"), <<46>>>>,  \* .
    <<V("Quote"), <<39>>>>,  \* '
    <<V("Semicolon"), <<59>>>>,  \* ;
    <<V("Slash"), <<47>>>>,  \* /
    <<V("AltLeft"), <<65, 108, 116, 32, 76, 101, 102, 116>>>>,  \* Alt Left
    <<V("AltRight"), <<65, 108, 116, 32, 82, 105, 103, 104, 116>>>>,  \* Alt Right
    <<V("CapsLock"), <<8682>>>>,  \* \u{21ea}
    <<V("ContextMenu"), <<67, 111, 110, 116, 101, 120, 116, 32, 77, 101, 110, 117>>>>,  \* Context Menu
    <<V("ControlLeft"), <<67, 111, 110, 116, 114, 111, 108, 32, 76, 101, 102, 116>>>>,  \* Control Left
    <<V("ControlRight"), <<67, 111, 110, 116, 114, 111, 108, 32, 82, 105, 103, 104, 116>>>>,  \* Control Right
    <<V("Enter"), <<8629>>>>,  \* \u{21b5}
    <<V("MetaLeft"), <<8984, 32, 76, 101, 102, 116>>>>,  \* \u{2318} Left
    <<V("MetaRight"), <<8984, 32, 82, 105, 103, 104, 116>>>>,  \* \u{2318} Right
    <<V("ShiftLeft"), <<8679, 32, 76, 101, 102, 116>>>>,  \* \u{21e7} Left
    <<V("ShiftRight"), <<8679, 32, 82, 105, 103, 104, 116>>>>,  \* \u{21e7} Right
    <<V("Space"), <<83, 112, 97, 99, 101>>>>,  \* Space
    <<V("Tab"), <<8677>>>>,  \* \u{21e5}
    <<V("Convert"), <<22793, 25563>>>>,  \* \u{5909}\u{63db}
    <<V("KanaMode"), <<12459, 12479, 12459, 12490, 47, 12402, 12425, 12364, 12394, 47, 12525, 12540, 12510, 23383>>>>,  \* \u{30ab}\u{30bf}\u{30ab}\u{30ca}/\u{3072}\u{3089}\u{304c}\u{306a}/\u{30ed}\u{30fc}\u{30de}\u{5b57}
    <<V("Lang1"), <<54620, 47, 50689, 32, 12363, 12394>>>>,  \* \u{d55c}/\u{c601} \u{304b}\u{306a}
    <<V("Lang2"), <<54620, 51088, 32, 33521, 25968>>>>,  \* \u{d55c}\u{c790} \u{82f1}\u{6570}
    <<V("Lang3"), <<12459, 12479, 12459, 12490>>>>,  \* \u{30ab}\u{30bf}\u{30ab}\u{30ca}
    <<V("Lang4"), <<12402, 12425, 12364, 12394>>>>,  \* \u{3072}\u{3089}\u{304c}\u{306a}
    <<V("Lang5"), <<21322, 35282, 47, 20840, 35282, 47, 28450, 23383>>>>,  \* \u{534a}\u{89d2}/\u{5168}\u{89d2}/\u{6f22}\u{5b57}
    <<V("NonConvert"), <<28961, 22793, 25563>>>>,  \* \u{7121}\u{5909}\u{63db}
    <<V("Delete"), <<68, 101, 108, 101, 116, 101>>>>,  \* Delete
    <<V("End"), <<69, 110, 100>>>>,  \* End
    <<V("Help"), <<72, 101, 108, 112>>>>,  \* Help
    <<V("Home"), <<72, 111, 109, 101>>>>,  \* Home
    <<V("Insert"), <<73, 110, 115, 101, 114, 116>>>>,  \* Insert
    <<V("PageDown"), <<80, 97, 103, 101, 32, 68, 111, 119, 110>>>>,  \* Page Down
    <<V("PageUp"), <<80, 97, 103, 101, 32, 85, 112>>>>,  \* Page Up
    <<V("ArrowDown"), <<8595>>>>,  \* \u{2193}
    <<V("ArrowLeft"), <<8592>>>>,  \* \u{2190}
    <<V("ArrowRight"), <<8594>>>>,  \* \u{2192}
    <<V("ArrowUp"), <<8593>>>>,  \* \u{2191}
    <<V("NumLock"), <<78, 117, 109, 32, 76, 111, 99, 107>>>>,  \* Num Lock
    <<V("Numpad0"), <<78, 117, 109, 112, 97, 100, 32, 48>>>>,  \* Numpad 0
    <<V("Numpad1"), <<78, 117, 109, 112, 97, 100, 32, 49>>>>,  \* Numpad 1
    <<V("Numpad2"), <<78, 117, 109, 112, 97, 100, 32, 50>>>>,  \* Numpad 2
    <<V("Numpad3"), <<78, 117, 109, 112, 97, 100, 32, 51>>>>,  \* Numpad 3
    <<V("Numpad4"), <<78, 117, 109, 112, 97, 100, 32, 52>>>>,  \* Numpad 4
    <<V("Numpad5"), <<78, 117, 109, 112, 97, 100, 32, 53>>>>,  \* Numpad 5
    <<V("Numpad6"), <<78, 117, 109, 112, 97, 100, 32, 54>>>>,  \* Numpad 6
    <<V("Numpad7"), <<78, 117, 109, 112, 97, 100, 32, 55>>>>,  \* Numpad 7
    <<V("Numpad8"), <<78, 117, 109, 112, 97, 100, 32, 56>>>>,  \* Numpad 8
    <<V("Numpad9"), <<78, 117, 109, 112, 97, 100, 32, 57>>>>,  \* Numpad 9
    <<V("NumpadAdd"), <<78, 117, 109, 112, 97, 100, 32, 43>>>>,  \* Numpad +
    <<V("NumpadBackspace"), <<78, 117, 109, 112, 97, 100, 32, 9003>>>>,  \* Numpad \u{232b}
    <<V("NumpadClear"), <<78, 117, 109, 112, 97, 100, 32, 67>>>>,  \* Numpad C
    <<V("NumpadClearEntry"), <<78, 117, 109, 112, 97, 100, 32, 67, 69>>>>,  \* Numpad CE
    <<V("NumpadComma"), <<78, 117, 109, 112, 97, 100, 32, 44>>>>,  \* Numpad ,
    <<V("NumpadDecimal"), <<78, 117, 109, 112, 97, 100, 32, 46>>>>,  \* Numpad .
    <<V("NumpadDivide"), <<78, 117, 109, 112, 97, 100, 32, 47>>>>,  \* Numpad /
    <<V("NumpadEnter"), <<78, 117, 109, 112, 97, 100, 32, 8629>>>>,  \* Numpad \u{21b5}
    <<V("NumpadEqual"), <<78, 117, 109, 112, 97, 100, 32, 61>>>>,  \* Numpad =
    <<V("NumpadHash"), <<78, 117, 109, 112, 97, 100, 32, 35>>>>,  \* Numpad #
    <<V("NumpadMemoryAdd"), <<78, 117, 109, 112, 97, 100, 32, 77, 43>>>>,  \* Numpad M+
    <<V("NumpadMemoryClear"), <<78, 117, 109, 112, 97, 100, 32, 77, 67>>>>,  \* Numpad MC
    <<V("NumpadMemoryRecall"), <<78, 117, 109, 112, 97, 100, 32, 77, 82>>>>,  \* Numpad MR
    <<V("NumpadMemoryStore"), <<78, 117, 109, 112, 97, 100, 32, 77, 83>>>>,  \* Numpad MS
    <<V("NumpadMemorySubtract"), <<78, 117, 109, 112, 97, 100, 32, 77, 45>>>>,  \* Numpad M-
    <<V("NumpadMultiply"), <<78, 117, 109, 112, 97, 100, 32, 42>>>>,  \* Numpad *
    <<V("NumpadParenLeft"), <<78, 117, 109, 112, 97, 100, 32, 40>>>>,  \* Numpad (
    <<V("NumpadParenRight"), <<78, 117, 109, 112, 97, 100, 32, 41>>>>,  \* Numpad )
    <<V("NumpadStar"), <<78, 117, 109, 112, 97, 100, 32, 42, 32, 40, 83, 116, 97, 114, 41>>>>,  \* Numpad * (Star)
    <<V("NumpadSubtract"), <<78, 117, 109, 112, 97, 100, 32, 45>>>>,  \* Numpad -
    <<V("Escape"), <<69, 115, 99, 97, 112, 101>>>>,  \* Escape
    <<V("F1"), <<70, 49>>>>,  \* F1
    <<V("F2"), <<70, 50>>>>,  \* F2
    <<V("F3"), <<70, 51>>>>,  \* F3
    <<V("F4"), <<70, 52>>>>,  \* F4
    <<V("F5"), <<70, 53>>>>,  \* F5
    <<V("F6"), <<70, 54>>>>,  \* F6
    <<V("F7"), <<70, 55>>>>,  \* F7
    <<V("F8"), <<70, 56>>>>,  \* F8
    <<V("F9"), <<70, 57>>>>,  \* F9
    <<V("F10"), <<70, 49, 48>>>>,  \* F10
    <<V("F11"), <<70, 49, 49>>>>,  \* F11
    <<V("F12"), <<70, 49, 50>>>>,  \* F12
    <<V("F13"), <<70, 49, 51>>>>,  \* F13
    <<V("F14"), <<70, 49, 52>>>>,  \* F14
    <<V("F15"), <<70, 49, 53>>>>,  \* F15
    <<V("F16"), <<70, 49, 54>>>>,  \* F16
    <<V("F17"), <<70, 49, 55>>>>,  \* F17
    <<V("F18"), <<70, 49, 56>>>>,  \* F18
    <<V("F19"), <<70, 49, 57>>>>,  \* F19
    <<V("F20"), <<70, 50, 48>>>>,  \* F20
    <<V("F21"), <<70, 50, 49>>>>,  \* F21
    <<V("F22"), <<70, 50, 50>>>>,  \* F22
    <<V("F23"), <<70, 50, 51>>>>,  \* F23
    <<V("F24"), <<70, 50, 52>>>>,  \* F24
    <<V("Fn"), <<70, 110>>>>,  \* Fn
    <<V("FnLock"), <<70, 110, 76, 111, 99, 107>>>>,  \* FnLock
    <<V("PrintScreen"), <<80, 114, 105, 110, 116, 32, 83, 99, 114, 101, 101, 110>>>>,  \* Print Screen
    <<V("ScrollLock"), <<83, 99, 114, 111, 108, 108, 32, 76, 111, 99, 107>>>>,  \* Scroll Lock
    <<V("Pause"), <<80, 97, 117, 115, 101, 32, 66, 114, 101, 97, 107>>>>,  \* Pause Break
    <<V("BrowserBack"), <<66, 114, 111, 119, 115, 101, 114, 32, 9198>>>>,  \* Browser \u{23ee}
    <<V("BrowserFavorites"), <<66, 114, 111, 119, 115, 101, 114, 32, 70, 97, 118, 111, 114, 105, 116, 101, 115>>>>,  \* Browser Favorites
    <<V("BrowserForward"), <<66, 114, 111, 119, 115, 101, 114, 32, 9197>>>>,  \* Browser \u{23ed}
    <<V("BrowserHome"), <<66, 114, 111, 119, 115, 101, 114, 32, 127968>>>>,  \* Browser \u{1f3e0}
    <<V("BrowserRefresh"), <<66, 114, 111, 119, 115, 101, 114, 32, 82, 101, 102, 114, 101, 115, 104>>>>,  \* Browser Refresh
    <<V("BrowserSearch"), <<66, 114, 111, 119, 115, 101, 114, 32, 83, 101, 97, 114, 99, 104>>>>,  \* Browser Search
    <<V("BrowserStop"), <<66, 114, 111, 119, 115, 101, 114, 32, 83, 116, 111, 112>>>>,  \* Browser Stop
    <<V("Eject"), <<9167>>>>,  \* \u{23cf}
    <<V("LaunchApp1"), <<76, 97, 117, 110, 99, 104, 32, 65, 112, 112, 32, 49>>>>,  \* Launch App 1
    <<V("LaunchApp2"), <<76, 97, 117, 110, 99, 104, 32, 65, 112, 112, 32, 50>>>>,  \* Launch App 2
    <<V("LaunchMail"), <<76, 97, 117, 110, 99, 104, 32, 77, 97, 105, 108>>>>,  \* Launch Mail
    <<V("MediaPlayPause"), <<9199>>>>,  \* \u{23ef}
    <<V("MediaSelect"), <<77, 101, 100, 105, 97, 32, 83, 101, 108, 101, 99, 116>>>>,  \* Media Select
    <<V("MediaStop"), <<9724>>>>,  \* \u{25fc}
    <<V("MediaTrackNext"), <<9197>>>>,  \* \u{23ed}
    <<V("MediaTrackPrevious"), <<9198>>>>,  \* \u{23ee}
    <<V("Power"), <<80, 111, 119, 101, 114>>>>,  \* Power
    <<V("Sleep"), <<83, 108, 101, 101, 112>>>>,  \* Sleep
    <<V("AudioVolumeDown"), <<128265>>>>,  \* \u{1f509}
    <<V("AudioVolumeMute"), <<128263>>>>,  \* \u{1f507}
    <<V("AudioVolumeUp"), <<128266>>>>,  \* \u{1f50a}
    <<V("WakeUp"), <<87, 97, 107, 101, 32, 85, 112>>>>,  \* Wake Up
    <<V("Again"), <<65, 103, 97, 105, 110>>>>,  \* Again
    <<V("Copy"), <<67, 111, 112, 121>>>>,  \* Copy
    <<V("Cut"), <<67, 117, 116>>>>,  \* Cut
    <<V("Find"), <<70, 105, 110, 100>>>>,  \* Find
    <<V("Open"), <<79, 112, 101, 110>>>>,  \* Open
    <<V("Paste"), <<80, 97, 115, 116, 101>>>>,  \* Paste
    <<V("Props"), <<80, 114, 111, 112, 115>>>>,  \* Props
    <<V("Select"), <<83, 101, 108, 101, 99, 116>>>>,  \* Select
    <<V("Undo"), <<85, 110, 100, 111>>>>,  \* Undo
    <<V("Gamepad0"), <<71, 97, 109, 101, 112, 97, 100, 32, 48>>>>,  \* Gamepad 0
    <<V("Gamepad1"), <<71, 97, 109, 101, 112, 97, 100, 32, 49>>>>,  \* Gamepad 1
    <<V("Gamepad2"), <<71, 97, 109, 101, 112, 97, 100, 32, 50>>>>,  \* Gamepad 2
    <<V("Gamepad3"), <<71, 97, 109, 101, 112, 97, 100, 32, 51>>>>,  \* Gamepad 3
    <<V("Gamepad4"), <<71, 97, 109, 101, 112, 97, 100, 32, 52>>>>,  \* Gamepad 4
    <<V("Gamepad5"), <<71, 97, 109, 101, 112, 97, 100, 32, 53>>>>,  \* Gamepad 5
    <<V("Gamepad6"), <<71, 97, 109, 101, 112, 97, 100, 32, 54>>>>,  \* Gamepad 6
    <<V("Gamepad7"), <<71, 97, 109, 101, 112, 97, 100, 32, 55>>>>,  \* Gamepad 7
    <<V("Gamepad8"), <<71, 97, 109, 101, 112, 97, 100, 32, 56>>>>,  \* Gamepad 8
    <<V("Gamepad9"), <<71, 97, 109, 101, 112, 97, 100, 32, 57>>>>,  \* Gamepad 9
    <<V("Gamepad10"), <<71, 97, 109, 101, 112, 97, 100, 32, 49, 48>>>>,  \* Gamepad 10
    <<V("Gamepad11"), <<71, 97, 109, 101, 112, 97, 100, 32, 49, 49>>>>,  \* Gamepad 11
    <<V("Gamepad12"), <<71, 97, 109, 101, 112, 97, 100, 32, 49, 50>>>>,  \* Gamepad 12
    <<V("Gamepad13"), <<71, 97, 109, 101, 112, 97, 100, 32, 49, 51>>>>,  \* Gamepad 13
    <<V("Gamepad14"), <<71, 97, 109, 101, 112, 97, 100, 32, 49, 52>>>>,  \* Gamepad 14
    <<V("Gamepad15"), <<71, 97, 109, 101, 112, 97, 100, 32, 49, 53>>>>,  \* Gamepad 15
    <<V("Gamepad16"), <<71, 97, 109, 101, 112, 97, 100, 32, 49, 54>>>>,  \* Gamepad 16
    <<V("Gamepad17"), <<71, 97, 109, 101, 112, 97, 100, 32, 49, 55>>>>,  \* Gamepad 17
    <<V("Gamepad18"), <<71, 97, 109, 101, 112, 97, 100, 32, 49, 56>>>>,  \* Gamepad 18
    <<V("Gamepad19"), <<71, 97, 109, 101, 112, 97, 100, 32, 49, 57>>>>,  \* Gamepad 19
    <<V("BrightnessDown"), <<66, 114, 105, 103, 104, 116, 110, 101, 115, 115, 32, 68, 111, 119, 110>>>>,  \* Brightness Down
    <<V("BrightnessUp"), <<66, 114, 105, 103, 104, 116, 110, 101, 115, 115, 32, 85, 112>>>>,  \* Brightness Up
    <<V("DisplayToggleIntExt"), <<68, 105, 115, 112, 108, 97, 121, 32, 84, 111, 103, 103, 108, 101, 32, 73, 110, 116, 101, 114, 110, 32, 47, 32, 69, 120, 116, 101, 114, 110>>>>,  \* Display Toggle Intern / Extern
    <<V("KeyboardLayoutSelect"), <<75, 101, 121, 98, 111, 97, 114, 100, 32, 76, 97, 121, 111, 117, 116, 32, 83, 101, 108, 101, 99, 116>>>>,  \* Keyboard Layout Select
    <<V("LaunchAssistant"), <<76, 97, 117, 110, 99, 104, 32, 65, 115, 115, 105, 115, 116, 97, 110, 116>>>>,  \* Launch Assistant
    <<V("LaunchControlPanel"), <<76, 97, 117, 110, 99, 104, 32, 67, 111, 110, 116, 114, 111, 108, 32, 80, 97, 110, 101, 108>>>>,  \* Launch Control Panel
    <<V("LaunchScreenSaver"), <<76, 97, 117, 110, 99, 104, 32, 83, 99, 114, 101, 101, 110, 32, 83, 97, 118, 101, 114>>>>,  \* Launch Screen Saver
    <<V("MailForward"), <<77, 97, 105, 108, 32, 70, 111, 114, 119, 97, 114, 100>>>>,  \* Mail Forward
    <<V("MailReply"), <<77, 97, 105, 108, 32, 82, 101, 112, 108, 121>>>>,  \* Mail Reply
    <<V("MailSend"), <<77, 97, 105, 108, 32, 83, 101, 110, 100>>>>,  \* Mail Send
    <<V("MediaFastForward"), <<9193>>>>,  \* \u{23e9}
    <<V("MediaPause"), <<9208>>>>,  \* \u{23f8}
    <<V("MediaPlay"), <<9654>>>>,  \* \u{25b6}
    <<V("MediaRecord"), <<9210>>>>,  \* \u{23fa}
    <<V("MediaRewind"), <<9194>>>>,  \* \u{23ea}
    <<V("PrivacyScreenToggle"), <<80, 114, 105, 118, 97, 99, 121, 32, 83, 99, 114, 101, 101, 110, 32, 84, 111, 103, 103, 108, 101>>>>,  \* Privacy Screen Toggle
    <<V("SelectTask"), <<83, 101, 108, 101, 99, 116, 32, 84, 97, 115, 107>>>>,  \* Select Task
    <<V("ShowAllWindows"), <<83, 104, 111, 119, 32, 65, 108, 108, 32, 87, 105, 110, 100, 111, 119, 115>>>>,  \* Show All Windows
    <<V("ZoomToggle"), <<90, 111, 111, 109, 32, 84, 111, 103, 103, 108, 101>>>>  \* Zoom Toggle
  >>

\* The as_str arms that match k, by position.
as_str_matching(k) == {i \in DOMAIN as_str_arms : as_str_arms[i][1] = k}

\* Fault variant of as_str: the arm of Space holds the empty literal.
as_str_empty_literal(k) ==
  IF as_str_matching(k) = {} \/ k = V("Space") THEN <<>>
  ELSE as_str_arms[Min(as_str_matching(k))][2]

\* Fault variant of as_str: the arm of Backquote holds the key's name.
as_str_backquote_name(k) ==
  IF as_str_matching(k) = {} THEN <<>>
  ELSE IF k = V("Backquote") THEN <<66, 97, 99, 107, 113, 117, 111, 116, 101>>
  ELSE as_str_arms[Min(as_str_matching(k))][2]

\* Fault variant of as_str: the arm of NumpadStar holds the literal of the arm
\* of NumpadMultiply, "Numpad *".
as_str_star_unmarked(k) ==
  IF as_str_matching(k) = {} THEN <<>>
  ELSE IF k = V("NumpadStar") THEN <<78, 117, 109, 112, 97, 100, 32, 42>>
  ELSE as_str_arms[Min(as_str_matching(k))][2]

\* match self { ... }: the first matching arm's literal.  The match has no
\* catch-all arm and the compiler rejects a match that leaves a variant out;
\* a variant without an arm is given the empty string here.
as_str(k) ==
  IF as_str_matching(k) = {} THEN <<>>
  ELSE as_str_arms[Min(as_str_matching(k))][2]

-----------------------------------------------------------------------------
(* KeyCode::classify: one match arm per class, <<or-pattern, class>>.       *)

classify_arms ==
  <<
    <<{
       V("Backquote"), V("Backslash"), V("Backspace"), V("BracketLeft"), V("BracketRight"),
       V("Comma"), V("Digit0"), V("Digit1"), V("Digit2"), V("Digit3"), V("Digit4"),
       V("Digit5"), V("Digit6"), V("Digit7"), V("Digit8"), V("Digit9"), V("Equal"),
       V("IntlBackslash"), V("IntlRo"), V("IntlYen"), V("KeyA"), V("KeyB"), V("KeyC"),
       V("KeyD"), V("KeyE"), V("KeyF"), V("KeyG"), V("KeyH"), V("KeyI"), V("KeyJ"), V("KeyK"),
       V("KeyL"), V("KeyM"), V("KeyN"), V("KeyO"), V("KeyP"), V("KeyQ"), V("KeyR"), V("KeyS"),
       V("KeyT"), V("KeyU"), V("KeyV"), V("KeyW"), V("KeyX"), V("KeyY"), V("KeyZ"), V("Minus"),
       V("Period"), V("Quote"), V("Semicolon"), V("Slash")
     }, "WritingSystem">>,
    <<{
       V("AltLeft"), V("AltRight"), V("CapsLock"), V("ContextMenu"), V("ControlLeft"),
       V("ControlRight"), V("Enter"), V("MetaLeft"), V("MetaRight"), V("ShiftLeft"),
       V("ShiftRight"), V("Space"), V("Tab"), V("Convert"), V("KanaMode"), V("Lang1"),
       V("Lang2"), V("Lang3"), V("Lang4"), V("Lang5"), V("NonConvert")
     }, "Functional">>,
    <<{
       V("Delete"), V("End"), V("Help"), V("Home"), V("Insert"), V("PageDown"), V("PageUp")
     }, "ControlPad">>,
    <<{
       V("ArrowDown"), V("ArrowLeft"), V("ArrowRight"), V("ArrowUp")
     }, "ArrowPad">>,
    <<{
       V("NumLock"), V("Numpad0"), V("Numpad1"), V("Numpad2"), V("Numpad3"), V("Numpad4"),
       V("Numpad5"), V("Numpad6"), V("Numpad7"), V("Numpad8"), V("Numpad9"), V("NumpadAdd"),
       V("NumpadBackspace"), V("NumpadClear"), V("NumpadClearEntry"), V("NumpadComma"),
       V("NumpadDecimal"), V("NumpadDivide"), V("NumpadEnter"), V("NumpadEqual"),
       V("NumpadHash"), V("NumpadMemoryAdd"), V("NumpadMemoryClear"), V("NumpadMemoryRecall"),
       V("NumpadMemoryStore"), V("NumpadMemorySubtract"), V("NumpadMultiply"),
       V("NumpadParenLeft"), V("NumpadParenRight"), V("NumpadStar"), V("NumpadSubtract")
     }, "Numpad">>,
    <<{
       V("Escape"), V("F1"), V("F2"), V("F3"), V("F4"), V("F5"), V("F6"), V("F7"), V("F8"),
       V("F9"), V("F10"), V("F11"), V("F12"), V("F13"), V("F14"), V("F15"), V("F16"), V("F17"),
       V("F18"), V("F19"), V("F20"), V("F21"), V("F22"), V("F23"), V("F24"), V("Fn"),
       V("FnLock"), V("PrintScreen"), V("ScrollLock"), V("Pause")
     }, "Function">>,
    <<{
       V("BrowserBack"), V("BrowserFavorites"), V("BrowserForward"), V("BrowserHome"),
       V("BrowserRefresh"), V("BrowserSearch"), V("BrowserStop"), V("Eject"), V("LaunchApp1"),
       V("LaunchApp2"), V("LaunchMail"), V("MediaPlayPause"), V("MediaSelect"), V("MediaStop"),
       V("MediaTrackNext"), V("MediaTrackPrevious"), V("Power"), V("Sleep"),
       V("AudioVolumeDown"), V("AudioVolumeMute"), V("AudioVolumeUp"), V("WakeUp")
     }, "Media">>,
    <<{
       V("Again"), V("Copy"), V("Cut"), V("Find"), V("Open"), V("Paste"), V("Props"),
       V("Select"), V("Undo")
     }, "Legacy">>,
    <<{
       V("Gamepad0"), V("Gamepad1"), V("Gamepad2"), V("Gamepad3"), V("Gamepad4"),
       V("Gamepad5"), V("Gamepad6"), V("Gamepad7"), V("Gamepad8"), V("Gamepad9"),
       V("Gamepad10"), V("Gamepad11"), V("Gamepad12"), V("Gamepad13"), V("Gamepad14"),
       V("Gamepad15"), V("Gamepad16"), V("Gamepad17"), V("Gamepad18"), V("Gamepad19")
     }, "Gamepad">>,
    <<{
       V("BrightnessDown"), V("BrightnessUp"), V("DisplayToggleIntExt"),
       V("KeyboardLayoutSelect"), V("LaunchAssistant"), V("LaunchControlPanel"),
       V("LaunchScreenSaver"), V("MailForward"), V("MailReply"), V("MailSend"),
       V("MediaFastForward"), V("MediaPause"), V("MediaPlay"), V("MediaRecord"),
       V("MediaRewind"), V("PrivacyScreenToggle"), V("SelectTask"), V("ShowAllWindows"),
       V("ZoomToggle")
     }, "NonStandard">>
  >>

\* Fault variant of classify_matching: MediaPlayPause is also listed in the
\* arm of the browser specific keys (next to MediaPlay and MediaPause).
classify_matching_twice(k) ==
  {i \in DOMAIN classify_arms :
     \/ k \in classify_arms[i][1]
     \/ k = V("MediaPlayPause") /\ classify_arms[i][2] = "NonStandard"}

\* The classify arms whose or-pattern contains k, by position.
classify_matching(k) == {i \in DOMAIN classify_arms : k \in classify_arms[i][1]}

\* The class of a variant that no arm lists: the match has no catch-all arm
\* and the compiler rejects a match that leaves a variant out.
NonExhaustive == "non-exhaustive match"

\* Fault variant of classify: the Shift keys are listed with the writing
\* system keys.
classify_shift_writing(k) ==
  IF k \in {V("ShiftLeft"), V("ShiftRight")} THEN "WritingSystem"
  ELSE IF classify_matching(k) = {} THEN NonExhaustive
  ELSE classify_arms[Min(classify_matching(k))][2]

\* match self { ... }: the first matching arm's class.
classify(k) ==
  IF classify_matching(k) = {} THEN NonExhaustive
  ELSE classify_arms[Min(classify_matching(k))][2]

-----------------------------------------------------------------------------
(* impl FromStr for KeyCode: one match arm per variant,                     *)
(* <<string patterns, variant>>, then the catch-all arm returning Err(()).  *)

from_str_arms ==
  <<
    <<{"Backquote"}, V("Backquote")>>,
    <<{"Backslash"}, V("Backslash")>>,
    <<{"Backspace"}, V("Backspace")>>,
    <<{"BracketLeft"}, V("BracketLeft")>>,
    <<{"BracketRight"}, V("BracketRight")>>,
    <<{"Comma"}, V("Comma")>>,
    <<{"Digit0", "0"}, V("Digit0")>>,
    <<{"Digit1", "1"}, V("Digit1")>>,
    <<{"Digit2", "2"}, V("Digit2")>>,
    <<{"Digit3", "3"}, V("Digit3")>>,
    <<{"Digit4", "4"}, V("Digit4")>>,
    <<{"Digit5", "5"}, V("Digit5")>>,
    <<{"Digit6", "6"}, V("Digit6")>>,
    <<{"Digit7", "7"}, V("Digit7")>>,
    <<{"Digit8", "8"}, V("Digit8")>>,
    <<{"Digit9", "9"}, V("Digit9")>>,
    <<{"Equal"}, V("Equal")>>,
    <<{"IntlBackslash"}, V("IntlBackslash")>>,
    <<{"IntlRo"}, V("IntlRo")>>,
    <<{"IntlYen"}, V("IntlYen")>>,
    <<{"KeyA", "A"}, V("KeyA")>>,
    <<{"KeyB", "B"}, V("KeyB")>>,
    <<{"KeyC", "C"}, V("KeyC")>>,
    <<{"KeyD", "D"}, V("KeyD")>>,
    <<{"KeyE", "E"}, V("KeyE")>>,
    <<{"KeyF", "F"}, V("KeyF")>>,
    <<{"KeyG", "G"}, V("KeyG")>>,
    <<{"KeyH", "H"}, V("KeyH")>>,
    <<{"KeyI", "I"}, V("KeyI")>>,
    <<{"KeyJ", "J"}, V("KeyJ")>>,
    <<{"KeyK", "K"}, V("KeyK")>>,
    <<{"KeyL", "L"}, V("KeyL")>>,
    <<{"KeyM", "M"}, V("KeyM")>>,
    <<{"KeyN", "N"}, V("KeyN")>>,
    <<{"KeyO", "O"}, V("KeyO")>>,
    <<{"KeyP", "P"}, V("KeyP")>>,
    <<{"KeyQ", "Q"}, V("KeyQ")>>,
    <<{"KeyR", "R"}, V("KeyR")>>,
    <<{"KeyS", "S"}, V("KeyS")>>,
    <<{"KeyT", "T"}, V("KeyT")>>,
    <<{"KeyU", "U"}, V("KeyU")>>,
    <<{"KeyV", "V"}, V("KeyV")>>,
    <<{"KeyW", "W"}, V("KeyW")>>,
    <<{"KeyX", "X"}, V("KeyX")>>,
    <<{"KeyY", "Y"}, V("KeyY")>>,
    <<{"KeyZ", "Z"}, V("KeyZ")>>,
    <<{"Minus"}, V("Minus")>>,
    <<{"Period"}, V("Period")>>,
    <<{"Quote"}, V("Quote")>>,
    <<{"Semicolon"}, V("Semicolon")>>,
    <<{"Slash"}, V("Slash")>>,
    <<{"AltLeft"}, V("AltLeft")>>,
    <<{"AltRight"}, V("AltRight")>>,
    <<{"CapsLock"}, V("CapsLock")>>,
    <<{"ContextMenu"}, V("ContextMenu")>>,
    <<{"ControlLeft"}, V("ControlLeft")>>,
    <<{"ControlRight"}, V("ControlRight")>>,
    <<{"Enter"}, V("Enter")>>,
    <<{"MetaLeft", "OSLeft"}, V("MetaLeft")>>,
    <<{"MetaRight", "OSRight"}, V("MetaRight")>>,
    <<{"ShiftLeft"}, V("ShiftLeft")>>,
    <<{"ShiftRight"}, V("ShiftRight")>>,
    <<{"Space"}, V("Space")>>,
    <<{"Tab"}, V("Tab")>>,
    <<{"Convert"}, V("Convert")>>,
    <<{"KanaMode"}, V("KanaMode")>>,
    <<{"Lang1"}, V("Lang1")>>,
    <<{"Lang2"}, V("Lang2")>>,
    <<{"Lang3"}, V("Lang3")>>,
    <<{"Lang4"}, V("Lang4")>>,
    <<{"Lang5"}, V("Lang5")>>,
    <<{"NonConvert"}, V("NonConvert")>>,
    <<{"Delete"}, V("Delete")>>,
    <<{"End"}, V("End")>>,
    <<{"Help"}, V("Help")>>,
    <<{"Home"}, V("Home")>>,
    <<{"Insert"}, V("Insert")>>,
    <<{"PageDown"}, V("PageDown")>>,
    <<{"PageUp"}, V("PageUp")>>,
    <<{"ArrowDown"}, V("ArrowDown")>>,
    <<{"ArrowLeft"}, V("ArrowLeft")>>,
    <<{"ArrowRight"}, V("ArrowRight")>>,
    <<{"ArrowUp"}, V("ArrowUp")>>,
    <<{"NumLock"}, V("NumLock")>>,
    <<{"Numpad0"}, V("Numpad0")>>,
    <<{"Numpad1"}, V("Numpad1")>>,
    <<{"Numpad2"}, V("Numpad2")>>,
    <<{"Numpad3"}, V("Numpad3")>>,
    <<{"Numpad4"}, V("Numpad4")>>,
    <<{"Numpad5"}, V("Numpad5")>>,
    <<{"Numpad6"}, V("Numpad6")>>,
    <<{"Numpad7"}, V("Numpad7")>>,
    <<{"Numpad8"}, V("Numpad8")>>,
    <<{"Numpad9"}, V("Numpad9")>>,
    <<{"NumpadAdd"}, V("NumpadAdd")>>,
    <<{"NumpadBackspace"}, V("NumpadBackspace")>>,
    <<{"NumpadClear"}, V("NumpadClear")>>,
    <<{"NumpadClearEntry"}, V("NumpadClearEntry")>>,
    <<{"NumpadComma"}, V("NumpadComma")>>,
    <<{"NumpadDecimal"}, V("NumpadDecimal")>>,
    <<{"NumpadDivide"}, V("NumpadDivide")>>,
    <<{"NumpadEnter"}, V("NumpadEnter")>>,
    <<{"NumpadEqual"}, V("NumpadEqual")>>,
    <<{"NumpadHash"}, V("NumpadHash")>>,
    <<{"NumpadMemoryAdd"}, V("NumpadMemoryAdd")>>,
    <<{"NumpadMemoryClear"}, V("NumpadMemoryClear")>>,
    <<{"NumpadMemoryRecall"}, V("NumpadMemoryRecall")>>,
    <<{"NumpadMemoryStore"}, V("NumpadMemoryStore")>>,
    <<{"NumpadMemorySubtract"}, V("NumpadMemorySubtract")>>,
    <<{"NumpadMultiply"}, V("NumpadMultiply")>>,
    <<{"NumpadParenLeft"}, V("NumpadParenLeft")>>,
    <<{"NumpadParenRight"}, V("NumpadParenRight")>>,
    <<{"NumpadStar"}, V("NumpadStar")>>,
    <<{"NumpadSubtract"}, V("NumpadSubtract")>>,
    <<{"Escape"}, V("Escape")>>,
    <<{"F1"}, V("F1")>>,
    <<{"F2"}, V("F2")>>,
    <<{"F3"}, V("F3")>>,
    <<{"F4"}, V("F4")>>,
    <<{"F5"}, V("F5")>>,
    <<{"F6"}, V("F6")>>,
    <<{"F7"}, V("F7")>>,
    <<{"F8"}, V("F8")>>,
    <<{"F9"}, V("F9")>>,
    <<{"F10"}, V("F10")>>,
    <<{"F11"}, V("F11")>>,
    <<{"F12"}, V("F12")>>,
    <<{"F13"}, V("F13")>>,
    <<{"F14"}, V("F14")>>,
    <<{"F15"}, V("F15")>>,
    <<{"F16"}, V("F16")>>,
    <<{"F17"}, V("F17")>>,
    <<{"F18"}, V("F18")>>,
    <<{"F19"}, V("F19")>>,
    <<{"F20"}, V("F20")>>,
    <<{"F21"}, V("F21")>>,
    <<{"F22"}, V("F22")>>,
    <<{"F23"}, V("F23")>>,
    <<{"F24"}, V("F24")>>,
    <<{"Fn"}, V("Fn")>>,
    <<{"FnLock"}, V("FnLock")>>,
    <<{"PrintScreen"}, V("PrintScreen")>>,
    <<{"ScrollLock"}, V("ScrollLock")>>,
    <<{"Pause"}, V("Pause")>>,
    <<{"BrowserBack"}, V("BrowserBack")>>,
    <<{"BrowserFavorites"}, V("BrowserFavorites")>>,
    <<{"BrowserForward"}, V("BrowserForward")>>,
    <<{"BrowserHome"}, V("BrowserHome")>>,
    <<{"BrowserRefresh"}, V("BrowserRefresh")>>,
    <<{"BrowserSearch"}, V("BrowserSearch")>>,
    <<{"BrowserStop"}, V("BrowserStop")>>,
    <<{"Eject"}, V("Eject")>>,
    <<{"LaunchApp1"}, V("LaunchApp1")>>,
    <<{"LaunchApp2"}, V("LaunchApp2")>>,
    <<{"LaunchMail"}, V("LaunchMail")>>,
    <<{"MediaPlayPause"}, V("MediaPlayPause")>>,
    <<{"MediaSelect", "LaunchMediaPlayer"}, V("MediaSelect")>>,
    <<{"MediaStop"}, V("MediaStop")>>,
    <<{"MediaTrackNext"}, V("MediaTrackNext")>>,
    <<{"MediaTrackPrevious"}, V("MediaTrackPrevious")>>,
    <<{"Power"}, V("Power")>>,
    <<{"Sleep"}, V("Sleep")>>,
    <<{"AudioVolumeDown", "VolumeDown"}, V("AudioVolumeDown")>>,
    <<{"AudioVolumeMute", "VolumeMute"}, V("AudioVolumeMute")>>,
    <<{"AudioVolumeUp", "VolumeUp"}, V("AudioVolumeUp")>>,
    <<{"WakeUp"}, V("WakeUp")>>,
    <<{"Again"}, V("Again")>>,
    <<{"Copy"}, V("Copy")>>,
    <<{"Cut"}, V("Cut")>>,
    <<{"Find"}, V("Find")>>,
    <<{"Open"}, V("Open")>>,
    <<{"Paste"}, V("Paste")>>,
    <<{"Props"}, V("Props")>>,
    <<{"Select"}, V("Select")>>,
    <<{"Undo"}, V("Undo")>>,
    <<{"Gamepad0"}, V("Gamepad0")>>,
    <<{"Gamepad1"}, V("Gamepad1")>>,
    <<{"Gamepad2"}, V("Gamepad2")>>,
    <<{"Gamepad3"}, V("Gamepad3")>>,
    <<{"Gamepad4"}, V("Gamepad4")>>,
    <<{"Gamepad5"}, V("Gamepad5")>>,
    <<{"Gamepad6"}, V("Gamepad6")>>,
    <<{"Gamepad7"}, V("Gamepad7")>>,
    <<{"Gamepad8"}, V("Gamepad8")>>,
    <<{"Gamepad9"}, V("Gamepad9")>>,
    <<{"Gamepad10"}, V("Gamepad10")>>,
    <<{"Gamepad11"}, V("Gamepad11")>>,
    <<{"Gamepad12"}, V("Gamepad12")>>,
    <<{"Gamepad13"}, V("Gamepad13")>>,
    <<{"Gamepad14"}, V("Gamepad14")>>,
    <<{"Gamepad15"}, V("Gamepad15")>>,
    <<{"Gamepad16"}, V("Gamepad16")>>,
    <<{"Gamepad17"}, V("Gamepad17")>>,
    <<{"Gamepad18"}, V("Gamepad18")>>,
    <<{"Gamepad19"}, V("Gamepad19")>>,
    <<{"BrightnessDown"}, V("BrightnessDown")>>,
    <<{"BrightnessUp"}, V("BrightnessUp")>>,
    <<{"DisplayToggleIntExt"}, V("DisplayToggleIntExt")>>,
    <<{"KeyboardLayoutSelect"}, V("KeyboardLayoutSelect")>>,
    <<{"LaunchAssistant"}, V("LaunchAssistant")>>,
    <<{"LaunchControlPanel"}, V("LaunchControlPanel")>>,
    <<{"LaunchScreenSaver"}, V("LaunchScreenSaver")>>,
    <<{"MailForward"}, V("MailForward")>>,
    <<{"MailReply"}, V("MailReply")>>,
    <<{"MailSend"}, V("MailSend")>>,
    <<{"MediaFastForward"}, V("MediaFastForward")>>,
    <<{"MediaPause"}, V("MediaPause")>>,
    <<{"MediaPlay"}, V("MediaPlay")>>,
    <<{"MediaRecord"}, V("MediaRecord")>>,
    <<{"MediaRewind"}, V("MediaRewind")>>,
    <<{"PrivacyScreenToggle"}, V("PrivacyScreenToggle")>>,
    <<{"SelectTask"}, V("SelectTask")>>,
    <<{"ShowAllWindows"}, V("ShowAllWindows")>>,
    <<{"ZoomToggle"}, V("ZoomToggle")>>
  >>

\* Fault variant of from_str_matching: the arm of AudioVolumeDown also lists
\* "VolumeUp".
from_str_matching_twice(s) ==
  {i \in DOMAIN from_str_arms :
     \/ s \in from_str_arms[i][1]
     \/ s = "VolumeUp" /\ from_str_arms[i][2] = V("AudioVolumeDown")}

\* The from_str arms one of whose patterns equals s, by position.
from_str_matching(s) == {i \in DOMAIN from_str_arms : s \in from_str_arms[i][1]}

\* Fault variant of from_str: the arm "NumpadStar" yields NumpadMultiply.
from_str_wrong_variant(s) ==
  IF from_str_matching(s) = {} THEN Err
  ELSE IF s = "NumpadStar" THEN Ok(V("NumpadMultiply"))
  ELSE Ok(from_str_arms[Min(from_str_matching(s))][2])

\* Fault variant of from_str: the catch-all arm yields the first variant
\* instead of Err(()).
from_str_fallback(s) ==
  IF from_str_matching(s) = {} THEN Ok(0)
  ELSE Ok(from_str_arms[Min(from_str_matching(s))][2])

\* Fault variant of from_str: "OSLeft" and "OSRight" are listed in each
\* other's arm.
from_str_os_swapped(s) ==
  IF from_str_matching(s) = {} THEN Err
  ELSE IF s = "OSLeft" THEN Ok(V("MetaRight"))
  ELSE IF s = "OSRight" THEN Ok(V("MetaLeft"))
  ELSE Ok(from_str_arms[Min(from_str_matching(s))][2])

\* Ok(match s { ... _ => return Err(()) }): the first matching arm wins.
from_str(s) ==
  IF from_str_matching(s) = {} THEN Err
  ELSE Ok(from_str_arms[Min(from_str_matching(s))][2])

-----------------------------------------------------------------------------
(* The layout query crate::platform::try_resolve, an external collaborator: *)
(* a lookup from KeyCode to Option<String> that depends on the layout       *)
(* active on the platform.  It is modelled by five layouts: one where the   *)
(* query is unavailable, one answering sharp s for every key, and extracts  *)
(* of the German and French layouts (which also answer for some keys        *)
(* outside the writing system section).                                     *)

SharpS == <<223>>  \* "\u{df}"

Layouts == {"Unavailable", "SharpS", "Qwertz", "Azerty", "Greek"}

Qwertz ==
  { <<V("KeyY"), <<122>>>>,         \* z
    <<V("KeyZ"), <<121>>>>,         \* y
    <<V("Minus"), <<223>>>>,        \* \u{df}
    <<V("BracketLeft"), <<252>>>>,  \* \u{fc}
    <<V("Semicolon"), <<246>>>>,    \* \u{f6}
    <<V("Quote"), <<228>>>>,        \* \u{e4}
    <<V("KeyA"), <<97>>>>,          \* a
    <<V("Digit1"), <<49>>>>,        \* 1
    <<V("Space"), <<32>>>>,         \* (space)
    <<V("NumpadDecimal"), <<44>>>>  \* ,
  }

Azerty ==
  { <<V("KeyQ"), <<97>>>>,          \* a
    <<V("KeyA"), <<113>>>>,         \* q
    <<V("KeyW"), <<122>>>>,         \* z
    <<V("KeyZ"), <<119>>>>,         \* w
    <<V("Semicolon"), <<109>>>>,    \* m
    <<V("KeyM"), <<44>>>>,          \* ,
    <<V("Digit2"), <<233>>>>,       \* \u{e9}
    <<V("Digit7"), <<232>>>>,       \* \u{e8}
    <<V("Digit9"), <<231>>>>,       \* \u{e7}
    <<V("Digit0"), <<224>>>>,       \* \u{e0}
    <<V("Space"), <<32>>>>,         \* (space)
    <<V("Tab"), <<9>>>>             \* \u{9}
  }

Greek ==
  { <<V("KeyA"), <<945>>>>,         \* \u{3b1} alpha
    <<V("KeyS"), <<963>>>>,         \* \u{3c3} sigma
    <<V("KeyW"), <<962>>>>,         \* \u{3c2} final sigma
    <<V("KeyQ"), <<59>>>>,          \* ;
    <<V("Semicolon"), <<900>>>>,    \* \u{384} tonos
    <<V("Space"), <<32>>>>          \* (space)
  }

LayoutKeys(lay) ==
  CASE lay = "Qwertz" -> Qwertz
    [] lay = "Azerty" -> Azerty
    [] lay = "Greek" -> Greek
    [] OTHER -> {}

try_resolve(lay, k) ==
  CASE lay = "Unavailable" -> None
    [] lay = "SharpS" -> Some(SharpS)
    [] OTHER ->
         IF \E e \in LayoutKeys(lay) : e[1] = k
         THEN Some((CHOOSE e \in LayoutKeys(lay) : e[1] = k)[2])
         ELSE None

-----------------------------------------------------------------------------
(* str::to_uppercase of the standard library: every char is replaced by its *)
(* upper case, one to three chars.  As in core::unicode, an ASCII char is   *)
(* upper-cased by arithmetic and any other char is looked up by binary      *)
(* search in a table sorted by char, and is left as it is when the table    *)
(* does not hold it.  The table is the one of Unicode 17.0 (simple and      *)
(* unconditional special upper-case mappings): <<char, upper case>>.        *)

UPPERCASE_TABLE ==
  <<
    <<181, <<924>>>>, <<223, <<83, 83>>>>, <<224, <<192>>>>, <<225, <<193>>>>,
    <<226, <<194>>>>, <<227, <<195>>>>, <<228, <<196>>>>, <<229, <<197>>>>,
    <<230, <<198>>>>, <<231, <<199>>>>, <<232, <<200>>>>, <<233, <<201>>>>,
    <<234, <<202>>>>, <<235, <<203>>>>, <<236, <<204>>>>, <<237, <<205>>>>,
    <<238, <<206>>>>, <<239, <<207>>>>, <<240, <<208>>>>, <<241, <<209>>>>,
    <<242, <<210>>>>, <<243, <<211>>>>, <<244, <<212>>>>, <<245, <<213>>>>,
    <<246, <<214>>>>, <<248, <<216>>>>, <<249, <<217>>>>, <<250, <<218>>>>,
    <<251, <<219>>>>, <<252, <<220>>>>, <<253, <<221>>>>, <<254, <<222>>>>,
    <<255, <<376>>>>, <<257, <<256>>>>, <<259, <<258>>>>, <<261, <<260>>>>,
    <<263, <<262>>>>, <<265, <<264>>>>, <<267, <<266>>>>, <<269, <<268>>>>,
    <<271, <<270>>>>, <<273, <<272>>>>, <<275, <<274>>>>, <<277, <<276>>>>,
    <<279, <<278>>>>, <<281, <<280>>>>, <<283, <<282>>>>, <<285, <<284>>>>,
    <<287, <<286>>>>, <<289, <<288>>>>, <<291, <<290>>>>, <<293, <<292>>>>,
    <<295, <<294>>>>, <<297, <<296>>>>, <<299, <<298>>>>, <<301, <<300>>>>,
    <<303, <<302>>>>, <<305, <<73>>>>, <<307, <<306>>>>, <<309, <<308>>>>,
    <<311, <<310>>>>, <<314, <<313>>>>, <<316, <<315>>>>, <<318, <<317>>>>,
    <<320, <<319>>>>, <<322, <<321>>>>, <<324, <<323>>>>, <<326, <<325>>>>,
    <<328, <<327>>>>, <<329, <<700, 78>>>>, <<331, <<330>>>>, <<333, <<332>>>>,
    <<335, <<334>>>>, <<337, <<336>>>>, <<339, <<338>>>>, <<341, <<340>>>>,
    <<343, <<342>>>>, <<345, <<344>>>>, <<347, <<346>>>>, <<349, <<348>>>>,
    <<351, <<350>>>>, <<353, <<352>>>>, <<355, <<354>>>>, <<357, <<356>>>>,
    <<359, <<358>>>>, <<361, <<360>>>>, <<363, <<362>>>>, <<365, <<364>>>>,
    <<367, <<366>>>>, <<369, <<368>>>>, <<371, <<370>>>>, <<373, <<372>>>>,
    <<375, <<374>>>>, <<378, <<377>>>>, <<380, <<379>>>>, <<382, <<381>>>>,
    <<383, <<83>>>>, <<384, <<579>>>>, <<387, <<386>>>>, <<389, <<388>>>>,
    <<392, <<391>>>>, <<396, <<395>>>>, <<402, <<401>>>>, <<405, <<502>>>>,
    <<409, <<408>>>>, <<410, <<573>>>>, <<411, <<42972>>>>, <<414, <<544>>>>,
    <<417, <<416>>>>, <<419, <<418>>>>, <<421, <<420>>>>, <<424, <<423>>>>,
    <<429, <<428>>>>, <<432, <<431>>>>, <<436, <<435>>>>, <<438, <<437>>>>,
    <<441, <<440>>>>, <<445, <<444>>>>, <<447, <<503>>>>, <<453, <<452>>>>,
    <<454, <<452>>>>, <<456, <<455>>>>, <<457, <<455>>>>, <<459, <<458>>>>,
    <<460, <<458>>>>, <<462, <<461>>>>, <<464, <<463>>>>, <<466, <<465>>>>,
    <<468, <<467>>>>, <<470, <<469>>>>, <<472, <<471>>>>, <<474, <<473>>>>,
    <<476, <<475>>>>, <<477, <<398>>>>, <<479, <<478>>>>, <<481, <<480>>>>,
    <<483, <<482>>>>, <<485, <<484>>>>, <<487, <<486>>>>, <<489, <<488>>>>,
    <<491, <<490>>>>, <<493, <<492>>>>, <<495, <<494>>>>, <<496, <<74, 780>>>>,
    <<498, <<497>>>>, <<499, <<497>>>>, <<501, <<500>>>>, <<505, <<504>>>>,
    <<507, <<506>>>>, <<509, <<508>>>>, <<511, <<510>>>>, <<513, <<512>>>>,
    <<515, <<514>>>>, <<517, <<516>>>>, <<519, <<518>>>>, <<521, <<520>>>>,
    <<523, <<522>>>>, <<525, <<524>>>>, <<527, <<526>>>>, <<529, <<528>>>>,
    <<531, <<530>>>>, <<533, <<532>>>>, <<535, <<534>>>>, <<537, <<536>>>>,
    <<539, <<538>>>>, <<541, <<540>>>>, <<543, <<542>>>>, <<547, <<546>>>>,
    <<549, <<548>>>>, <<551, <<550>>>>, <<553, <<552>>>>, <<555, <<554>>>>,
    <<557, <<556>>>>, <<559, <<558>>>>, <<561, <<560>>>>, <<563, <<562>>>>,
    <<572, <<571>>>>, <<575, <<11390>>>>, <<576, <<11391>>>>, <<578, <<577>>>>,
    <<583, <<582>>>>, <<585, <<584>>>>, <<587, <<586>>>>, <<589, <<588>>>>,
    <<591, <<590>>>>, <<592, <<11375>>>>, <<593, <<11373>>>>, <<594, <<11376>>>>,
    <<595, <<385>>>>, <<596, <<390>>>>, <<598, <<393>>>>, <<599, <<394>>>>,
    <<601, <<399>>>>, <<603, <<400>>>>, <<604, <<42923>>>>, <<608, <<403>>>>,
    <<609, <<42924>>>>, <<611, <<404>>>>, <<612, <<42955>>>>, <<613, <<42893>>>>,
    <<614, <<42922>>>>, <<616, <<407>>>>, <<617, <<406>>>>, <<618, <<42926>>>>,
    <<619, <<11362>>>>, <<620, <<42925>>>>, <<623, <<412>>>>, <<625, <<11374>>>>,
    <<626, <<413>>>>, <<629, <<415>>>>, <<637, <<11364>>>>, <<640, <<422>>>>,
    <<642, <<42949>>>>, <<643, <<425>>>>, <<647, <<42929>>>>, <<648, <<430>>>>,
    <<649, <<580>>>>, <<650, <<433>>>>, <<651, <<434>>>>, <<652, <<581>>>>,
    <<658, <<439>>>>, <<669, <<42930>>>>, <<670, <<42928>>>>, <<837, <<921>>>>,
    <<881, <<880>>>>, <<883, <<882>>>>, <<887, <<886>>>>, <<891, <<1021>>>>,
    <<892, <<1022>>>>, <<893, <<1023>>>>, <<912, <<921, 776, 769>>>>,
    <<940, <<902>>>>, <<941, <<904>>>>, <<942, <<905>>>>, <<943, <<906>>>>,
    <<944, <<933, 776, 769>>>>, <<945, <<913>>>>, <<946, <<914>>>>,
    <<947, <<915>>>>, <<948, <<916>>>>, <<949, <<917>>>>, <<950, <<918>>>>,
    <<951, <<919>>>>, <<952, <<920>>>>, <<953, <<921>>>>, <<954, <<922>>>>,
    <<955, <<923>>>>, <<956, <<924>>>>, <<957, <<925>>>>, <<958, <<926>>>>,
    <<959, <<927>>>>, <<960, <<928>>>>, <<961, <<929>>>>, <<962, <<931>>>>,
    <<963, <<931>>>>, <<964, <<932>>>>, <<965, <<933>>>>, <<966, <<934>>>>,
    <<967, <<935>>>>, <<968, <<936>>>>, <<969, <<937>>>>, <<970, <<938>>>>,
    <<971, <<939>>>>, <<972, <<908>>>>, <<973, <<910>>>>, <<974, <<911>>>>,
    <<976, <<914>>>>, <<977, <<920>>>>, <<981, <<934>>>>, <<982, <<928>>>>,
    <<983, <<975>>>>, <<985, <<984>>>>, <<987, <<986>>>>, <<989, <<988>>>>,
    <<991, <<990>>>>, <<993, <<992>>>>, <<995, <<994>>>>, <<997, <<996>>>>,
    <<999, <<998>>>>, <<1001, <<1000>>>>, <<1003, <<1002>>>>, <<1005, <<1004>>>>,
    <<1007, <<1006>>>>, <<1008, <<922>>>>, <<1009, <<929>>>>, <<1010, <<1017>>>>,
    <<1011, <<895>>>>, <<1013, <<917>>>>, <<1016, <<1015>>>>, <<1019, <<1018>>>>,
    <<1072, <<1040>>>>, <<1073, <<1041>>>>, <<1074, <<1042>>>>,
    <<1075, <<1043>>>>, <<1076, <<1044>>>>, <<1077, <<1045>>>>,
    <<1078, <<1046>>>>, <<1079, <<1047>>>>, <<1080, <<1048>>>>,
    <<1081, <<1049>>>>, <<1082, <<1050>>>>, <<1083, <<1051>>>>,
    <<1084, <<1052>>>>, <<1085, <<1053>>>>, <<1086, <<1054>>>>,
    <<1087, <<1055>>>>, <<1088, <<1056>>>>, <<1089, <<1057>>>>,
    <<1090, <<1058>>>>, <<1091, <<1059>>>>, <<1092, <<1060>>>>,
    <<1093, <<1061>>>>, <<1094, <<1062>>>>, <<1095, <<1063>>>>,
    <<1096, <<1064>>>>, <<1097, <<1065>>>>, <<1098, <<1066>>>>,
    <<1099, <<1067>>>>, <<1100, <<1068>>>>, <<1101, <<1069>>>>,
    <<1102, <<1070>>>>, <<1103, <<1071>>>>, <<1104, <<1024>>>>,
    <<1105, <<1025>>>>, <<1106, <<1026>>>>, <<1107, <<1027>>>>,
    <<1108, <<1028>>>>, <<1109, <<1029>>>>, <<1110, <<1030>>>>,
    <<1111, <<1031>>>>, <<1112, <<1032>>>>, <<1113, <<1033>>>>,
    <<1114, <<1034>>>>, <<1115, <<1035>>>>, <<1116, <<1036>>>>,
    <<1117, <<1037>>>>, <<1118, <<1038>>>>, <<1119, <<1039>>>>,
    <<1121, <<1120>>>>, <<1123, <<1122>>>>, <<1125, <<1124>>>>,
    <<1127, <<1126>>>>, <<1129, <<1128>>>>, <<1131, <<1130>>>>,
    <<1133, <<1132>>>>, <<1135, <<1134>>>>, <<1137, <<1136>>>>,
    <<1139, <<1138>>>>, <<1141, <<1140>>>>, <<1143, <<1142>>>>,
    <<1145, <<1144>>>>, <<1147, <<1146>>>>, <<1149, <<1148>>>>,
    <<1151, <<1150>>>>, <<1153, <<1152>>>>, <<1163, <<1162>>>>,
    <<1165, <<1164>>>>, <<1167, <<1166>>>>, <<1169, <<1168>>>>,
    <<1171, <<1170>>>>, <<1173, <<1172>>>>, <<1175, <<1174>>>>,
    <<1177, <<1176>>>>, <<1179, <<1178>>>>, <<1181, <<1180>>>>,
    <<1183, <<1182>>>>, <<1185, <<1184>>>>, <<1187, <<1186>>>>,
    <<1189, <<1188>>>>, <<1191, <<1190>>>>, <<1193, <<1192>>>>,
    <<1195, <<1194>>>>, <<1197, <<1196>>>>, <<1199, <<1198>>>>,
    <<1201, <<1200>>>>, <<1203, <<1202>>>>, <<1205, <<1204>>>>,
    <<1207, <<1206>>>>, <<1209, <<1208>>>>, <<1211, <<1210>>>>,
    <<1213, <<1212>>>>, <<1215, <<1214>>>>, <<1218, <<1217>>>>,
    <<1220, <<1219>>>>, <<1222, <<1221>>>>, <<1224, <<1223>>>>,
    <<1226, <<1225>>>>, <<1228, <<1227>>>>, <<1230, <<1229>>>>,
    <<1231, <<1216>>>>, <<1233, <<1232>>>>, <<1235, <<1234>>>>,
    <<1237, <<1236>>>>, <<1239, <<1238>>>>, <<1241, <<1240>>>>,
    <<1243, <<1242>>>>, <<1245, <<1244>>>>, <<1247, <<1246>>>>,
    <<1249, <<1248>>>>, <<1251, <<1250>>>>, <<1253, <<1252>>>>,
    <<1255, <<1254>>>>, <<1257, <<1256>>>>, <<1259, <<1258>>>>,
    <<1261, <<1260>>>>, <<1263, <<1262>>>>, <<1265, <<1264>>>>,
    <<1267, <<1266>>>>, <<1269, <<1268>>>>, <<1271, <<1270>>>>,
    <<1273, <<1272>>>>, <<1275, <<1274>>>>, <<1277, <<1276>>>>,
    <<1279, <<1278>>>>, <<1281, <<1280>>>>, <<1283, <<1282>>>>,
    <<1285, <<1284>>>>, <<1287, <<1286>>>>, <<1289, <<1288>>>>,
    <<1291, <<1290>>>>, <<1293, <<1292>>>>, <<1295, <<1294>>>>,
    <<1297, <<1296>>>>, <<1299, <<1298>>>>, <<1301, <<1300>>>>,
    <<1303, <<1302>>>>, <<1305, <<1304>>>>, <<1307, <<1306>>>>,
    <<1309, <<1308>>>>, <<1311, <<1310>>>>, <<1313, <<1312>>>>,
    <<1315, <<1314>>>>, <<1317, <<1316>>>>, <<1319, <<1318>>>>,
    <<1321, <<1320>>>>, <<1323, <<1322>>>>, <<1325, <<1324>>>>,
    <<1327, <<1326>>>>, <<1377, <<1329>>>>, <<1378, <<1330>>>>,
    <<1379, <<1331>>>>, <<1380, <<1332>>>>, <<1381, <<1333>>>>,
    <<1382, <<1334>>>>, <<1383, <<1335>>>>, <<1384, <<1336>>>>,
    <<1385, <<1337>>>>, <<1386, <<1338>>>>, <<1387, <<1339>>>>,
    <<1388, <<1340>>>>, <<1389, <<1341>>>>, <<1390, <<1342>>>>,
    <<1391, <<1343>>>>, <<1392, <<1344>>>>, <<1393, <<1345>>>>,
    <<1394, <<1346>>>>, <<1395, <<1347>>>>, <<1396, <<1348>>>>,
    <<1397, <<1349>>>>, <<1398, <<1350>>>>, <<1399, <<1351>>>>,
    <<1400, <<1352>>>>, <<1401, <<1353>>>>, <<1402, <<1354>>>>,
    <<1403, <<1355>>>>, <<1404, <<1356>>>>, <<1405, <<1357>>>>,
    <<1406, <<1358>>>>, <<1407, <<1359>>>>, <<1408, <<1360>>>>,
    <<1409, <<1361>>>>, <<1410, <<1362>>>>, <<1411, <<1363>>>>,
    <<1412, <<1364>>>>, <<1413, <<1365>>>>, <<1414, <<1366>>>>,
    <<1415, <<1333, 1362>>>>, <<4304, <<7312>>>>, <<4305, <<7313>>>>,
    <<4306, <<7314>>>>, <<4307, <<7315>>>>, <<4308, <<7316>>>>,
    <<4309, <<7317>>>>, <<4310, <<7318>>>>, <<4311, <<7319>>>>,
    <<4312, <<7320>>>>, <<4313, <<7321>>>>, <<4314, <<7322>>>>,
    <<4315, <<7323>>>>, <<4316, <<7324>>>>, <<4317, <<7325>>>>,
    <<4318, <<7326>>>>, <<4319, <<7327>>>>, <<4320, <<7328>>>>,
    <<4321, <<7329>>>>, <<4322, <<7330>>>>, <<4323, <<7331>>>>,
    <<4324, <<7332>>>>, <<4325, <<7333>>>>, <<4326, <<7334>>>>,
    <<4327, <<7335>>>>, <<4328, <<7336>>>>, <<4329, <<7337>>>>,
    <<4330, <<7338>>>>, <<4331, <<7339>>>>, <<4332, <<7340>>>>,
    <<4333, <<7341>>>>, <<4334, <<7342>>>>, <<4335, <<7343>>>>,
    <<4336, <<7344>>>>, <<4337, <<7345>>>>, <<4338, <<7346>>>>,
    <<4339, <<7347>>>>, <<4340, <<7348>>>>, <<4341, <<7349>>>>,
    <<4342, <<7350>>>>, <<4343, <<7351>>>>, <<4344, <<7352>>>>,
    <<4345, <<7353>>>>, <<4346, <<7354>>>>, <<4349, <<7357>>>>,
    <<4350, <<7358>>>>, <<4351, <<7359>>>>, <<5112, <<5104>>>>,
    <<5113, <<5105>>>>, <<5114, <<5106>>>>, <<5115, <<5107>>>>,
    <<5116, <<5108>>>>, <<5117, <<5109>>>>, <<7296, <<1042>>>>,
    <<7297, <<1044>>>>, <<7298, <<1054>>>>, <<7299, <<1057>>>>,
    <<7300, <<1058>>>>, <<7301, <<1058>>>>, <<7302, <<1066>>>>,
    <<7303, <<1122>>>>, <<7304, <<42570>>>>, <<7306, <<7305>>>>,
    <<7545, <<42877>>>>, <<7549, <<11363>>>>, <<7566, <<42950>>>>,
    <<7681, <<7680>>>>, <<7683, <<7682>>>>, <<7685, <<7684>>>>,
    <<7687, <<7686>>>>, <<7689, <<7688>>>>, <<7691, <<7690>>>>,
    <<7693, <<7692>>>>, <<7695, <<7694>>>>, <<7697, <<7696>>>>,
    <<7699, <<7698>>>>, <<7701, <<7700>>>>, <<7703, <<7702>>>>,
    <<7705, <<7704>>>>, <<7707, <<7706>>>>, <<7709, <<7708>>>>,
    <<7711, <<7710>>>>, <<7713, <<7712>>>>, <<7715, <<7714>>>>,
    <<7717, <<7716>>>>, <<7719, <<7718>>>>, <<7721, <<7720>>>>,
    <<7723, <<7722>>>>, <<7725, <<7724>>>>, <<7727, <<7726>>>>,
    <<7729, <<7728>>>>, <<7731, <<7730>>>>, <<7733, <<7732>>>>,
    <<7735, <<7734>>>>, <<7737, <<7736>>>>, <<7739, <<7738>>>>,
    <<7741, <<7740>>>>, <<7743, <<7742>>>>, <<7745, <<7744>>>>,
    <<7747, <<7746>>>>, <<7749, <<7748>>>>, <<7751, <<7750>>>>,
    <<7753, <<7752>>>>, <<7755, <<7754>>>>, <<7757, <<7756>>>>,
    <<7759, <<7758>>>>, <<7761, <<7760>>>>, <<7763, <<7762>>>>,
    <<7765, <<7764>>>>, <<7767, <<7766>>>>, <<7769, <<7768>>>>,
    <<7771, <<7770>>>>, <<7773, <<7772>>>>, <<7775, <<7774>>>>,
    <<7777, <<7776>>>>, <<7779, <<7778>>>>, <<7781, <<7780>>>>,
    <<7783, <<7782>>>>, <<7785, <<7784>>>>, <<7787, <<7786>>>>,
    <<7789, <<7788>>>>, <<7791, <<7790>>>>, <<7793, <<7792>>>>,
    <<7795, <<7794>>>>, <<7797, <<7796>>>>, <<7799, <<7798>>>>,
    <<7801, <<7800>>>>, <<7803, <<7802>>>>, <<7805, <<7804>>>>,
    <<7807, <<7806>>>>, <<7809, <<7808>>>>, <<7811, <<7810>>>>,
    <<7813, <<7812>>>>, <<7815, <<7814>>>>, <<7817, <<7816>>>>,
    <<7819, <<7818>>>>, <<7821, <<7820>>>>, <<7823, <<7822>>>>,
    <<7825, <<7824>>>>, <<7827, <<7826>>>>, <<7829, <<7828>>>>,
    <<7830, <<72, 817>>>>, <<7831, <<84, 776>>>>, <<7832, <<87, 778>>>>,
    <<7833, <<89, 778>>>>, <<7834, <<65, 702>>>>, <<7835, <<7776>>>>,
    <<7841, <<7840>>>>, <<7843, <<7842>>>>, <<7845, <<7844>>>>,
    <<7847, <<7846>>>>, <<7849, <<7848>>>>, <<7851, <<7850>>>>,
    <<7853, <<7852>>>>, <<7855, <<7854>>>>, <<7857, <<7856>>>>,
    <<7859, <<7858>>>>, <<7861, <<7860>>>>, <<7863, <<7862>>>>,
    <<7865, <<7864>>>>, <<7867, <<7866>>>>, <<7869, <<7868>>>>,
    <<7871, <<7870>>>>, <<7873, <<7872>>>>, <<7875, <<7874>>>>,
    <<7877, <<7876>>>>, <<7879, <<7878>>>>, <<7881, <<7880>>>>,
    <<7883, <<7882>>>>, <<7885, <<7884>>>>, <<7887, <<7886>>>>,
    <<7889, <<7888>>>>, <<7891, <<7890>>>>, <<7893, <<7892>>>>,
    <<7895, <<7894>>>>, <<7897, <<7896>>>>, <<7899, <<7898>>>>,
    <<7901, <<7900>>>>, <<7903, <<7902>>>>, <<7905, <<7904>>>>,
    <<7907, <<7906>>>>, <<7909, <<7908>>>>, <<7911, <<7910>>>>,
    <<7913, <<7912>>>>, <<7915, <<7914>>>>, <<7917, <<7916>>>>,
    <<7919, <<7918>>>>, <<7921, <<7920>>>>, <<7923, <<7922>>>>,
    <<7925, <<7924>>>>, <<7927, <<7926>>>>, <<7929, <<7928>>>>,
    <<7931, <<7930>>>>, <<7933, <<7932>>>>, <<7935, <<7934>>>>,
    <<7936, <<7944>>>>, <<7937, <<7945>>>>, <<7938, <<7946>>>>,
    <<7939, <<7947>>>>, <<7940, <<7948>>>>, <<7941, <<7949>>>>,
    <<7942, <<7950>>>>, <<7943, <<7951>>>>, <<7952, <<7960>>>>,
    <<7953, <<7961>>>>, <<7954, <<7962>>>>, <<7955, <<7963>>>>,
    <<7956, <<7964>>>>, <<7957, <<7965>>>>, <<7968, <<7976>>>>,
    <<7969, <<7977>>>>, <<7970, <<7978>>>>, <<7971, <<7979>>>>,
    <<7972, <<7980>>>>, <<7973, <<7981>>>>, <<7974, <<7982>>>>,
    <<7975, <<7983>>>>, <<7984, <<7992>>>>, <<7985, <<7993>>>>,
    <<7986, <<7994>>>>, <<7987, <<7995>>>>, <<7988, <<7996>>>>,
    <<7989, <<7997>>>>, <<7990, <<7998>>>>, <<7991, <<7999>>>>,
    <<8000, <<8008>>>>, <<8001, <<8009>>>>, <<8002, <<8010>>>>,
    <<8003, <<8011>>>>, <<8004, <<8012>>>>, <<8005, <<8013>>>>,
    <<8016, <<933, 787>>>>, <<8017, <<8025>>>>, <<8018, <<933, 787, 768>>>>,
    <<8019, <<8027>>>>, <<8020, <<933, 787, 769>>>>, <<8021, <<8029>>>>,
    <<8022, <<933, 787, 834>>>>, <<8023, <<8031>>>>, <<8032, <<8040>>>>,
    <<8033, <<8041>>>>, <<8034, <<8042>>>>, <<8035, <<8043>>>>,
    <<8036, <<8044>>>>, <<8037, <<8045>>>>, <<8038, <<8046>>>>,
    <<8039, <<8047>>>>, <<8048, <<8122>>>>, <<8049, <<8123>>>>,
    <<8050, <<8136>>>>, <<8051, <<8137>>>>, <<8052, <<8138>>>>,
    <<8053, <<8139>>>>, <<8054, <<8154>>>>, <<8055, <<8155>>>>,
    <<8056, <<8184>>>>, <<8057, <<8185>>>>, <<8058, <<8170>>>>,
    <<8059, <<8171>>>>, <<8060, <<8186>>>>, <<8061, <<8187>>>>,
    <<8064, <<7944, 921>>>>, <<8065, <<7945, 921>>>>, <<8066, <<7946, 921>>>>,
    <<8067, <<7947, 921>>>>, <<8068, <<7948, 921>>>>, <<8069, <<7949, 921>>>>,
    <<8070, <<7950, 921>>>>, <<8071, <<7951, 921>>>>, <<8072, <<7944, 921>>>>,
    <<8073, <<7945, 921>>>>, <<8074, <<7946, 921>>>>, <<8075, <<7947, 921>>>>,
    <<8076, <<7948, 921>>>>, <<8077, <<7949, 921>>>>, <<8078, <<7950, 921>>>>,
    <<8079, <<7951, 921>>>>, <<8080, <<7976, 921>>>>, <<8081, <<7977, 921>>>>,
    <<8082, <<7978, 921>>>>, <<8083, <<7979, 921>>>>, <<8084, <<7980, 921>>>>,
    <<8085, <<7981, 921>>>>, <<8086, <<7982, 921>>>>, <<8087, <<7983, 921>>>>,
    <<8088, <<7976, 921>>>>, <<8089, <<7977, 921>>>>, <<8090, <<7978, 921>>>>,
    <<8091, <<7979, 921>>>>, <<8092, <<7980, 921>>>>, <<8093, <<7981, 921>>>>,
    <<8094, <<7982, 921>>>>, <<8095, <<7983, 921>>>>, <<8096, <<8040, 921>>>>,
    <<8097, <<8041, 921>>>>, <<8098, <<8042, 921>>>>, <<8099, <<8043, 921>>>>,
    <<8100, <<8044, 921>>>>, <<8101, <<8045, 921>>>>, <<8102, <<8046, 921>>>>,
    <<8103, <<8047, 921>>>>, <<8104, <<8040, 921>>>>, <<8105, <<8041, 921>>>>,
    <<8106, <<8042, 921>>>>, <<8107, <<8043, 921>>>>, <<8108, <<8044, 921>>>>,
    <<8109, <<8045, 921>>>>, <<8110, <<8046, 921>>>>, <<8111, <<8047, 921>>>>,
    <<8112, <<8120>>>>, <<8113, <<8121>>>>, <<8114, <<8122, 921>>>>,
    <<8115, <<913, 921>>>>, <<8116, <<902, 921>>>>, <<8118, <<913, 834>>>>,
    <<8119, <<913, 834, 921>>>>, <<8124, <<913, 921>>>>, <<8126, <<921>>>>,
    <<8130, <<8138, 921>>>>, <<8131, <<919, 921>>>>, <<8132, <<905, 921>>>>,
    <<8134, <<919, 834>>>>, <<8135, <<919, 834, 921>>>>, <<8140, <<919, 921>>>>,
    <<8144, <<8152>>>>, <<8145, <<8153>>>>, <<8146, <<921, 776, 768>>>>,
    <<8147, <<921, 776, 769>>>>, <<8150, <<921, 834>>>>,
    <<8151, <<921, 776, 834>>>>, <<8160, <<8168>>>>, <<8161, <<8169>>>>,
    <<8162, <<933, 776, 768>>>>, <<8163, <<933, 776, 769>>>>,
    <<8164, <<929, 787>>>>, <<8165, <<8172>>>>, <<8166, <<933, 834>>>>,
    <<8167, <<933, 776, 834>>>>, <<8178, <<8186, 921>>>>, <<8179, <<937, 921>>>>,
    <<8180, <<911, 921>>>>, <<8182, <<937, 834>>>>, <<8183, <<937, 834, 921>>>>,
    <<8188, <<937, 921>>>>, <<8526, <<8498>>>>, <<8560, <<8544>>>>,
    <<8561, <<8545>>>>, <<8562, <<8546>>>>, <<8563, <<8547>>>>,
    <<8564, <<8548>>>>, <<8565, <<8549>>>>, <<8566, <<8550>>>>,
    <<8567, <<8551>>>>, <<8568, <<8552>>>>, <<8569, <<8553>>>>,
    <<8570, <<8554>>>>, <<8571, <<8555>>>>, <<8572, <<8556>>>>,
    <<8573, <<8557>>>>, <<8574, <<8558>>>>, <<8575, <<8559>>>>,
    <<8580, <<8579>>>>, <<9424, <<9398>>>>, <<9425, <<9399>>>>,
    <<9426, <<9400>>>>, <<9427, <<9401>>>>, <<9428, <<9402>>>>,
    <<9429, <<9403>>>>, <<9430, <<9404>>>>, <<9431, <<9405>>>>,
    <<9432, <<9406>>>>, <<9433, <<9407>>>>, <<9434, <<9408>>>>,
    <<9435, <<9409>>>>, <<9436, <<9410>>>>, <<9437, <<9411>>>>,
    <<9438, <<9412>>>>, <<9439, <<9413>>>>, <<9440, <<9414>>>>,
    <<9441, <<9415>>>>, <<9442, <<9416>>>>, <<9443, <<9417>>>>,
    <<9444, <<9418>>>>, <<9445, <<9419>>>>, <<9446, <<9420>>>>,
    <<9447, <<9421>>>>, <<9448, <<9422>>>>, <<9449, <<9423>>>>,
    <<11312, <<11264>>>>, <<11313, <<11265>>>>, <<11314, <<11266>>>>,
    <<11315, <<11267>>>>, <<11316, <<11268>>>>, <<11317, <<11269>>>>,
    <<11318, <<11270>>>>, <<11319, <<11271>>>>, <<11320, <<11272>>>>,
    <<11321, <<11273>>>>, <<11322, <<11274>>>>, <<11323, <<11275>>>>,
    <<11324, <<11276>>>>, <<11325, <<11277>>>>, <<11326, <<11278>>>>,
    <<11327, <<11279>>>>, <<11328, <<11280>>>>, <<11329, <<11281>>>>,
    <<11330, <<11282>>>>, <<11331, <<11283>>>>, <<11332, <<11284>>>>,
    <<11333, <<11285>>>>, <<11334, <<11286>>>>, <<11335, <<11287>>>>,
    <<11336, <<11288>>>>, <<11337, <<11289>>>>, <<11338, <<11290>>>>,
    <<11339, <<11291>>>>, <<11340, <<11292>>>>, <<11341, <<11293>>>>,
    <<11342, <<11294>>>>, <<11343, <<11295>>>>, <<11344, <<11296>>>>,
    <<11345, <<11297>>>>, <<11346, <<11298>>>>, <<11347, <<11299>>>>,
    <<11348, <<11300>>>>, <<11349, <<11301>>>>, <<11350, <<11302>>>>,
    <<11351, <<11303>>>>, <<11352, <<11304>>>>, <<11353, <<11305>>>>,
    <<11354, <<11306>>>>, <<11355, <<11307>>>>, <<11356, <<11308>>>>,
    <<11357, <<11309>>>>, <<11358, <<11310>>>>, <<11359, <<11311>>>>,
    <<11361, <<11360>>>>, <<11365, <<570>>>>, <<11366, <<574>>>>,
    <<11368, <<11367>>>>, <<11370, <<11369>>>>, <<11372, <<11371>>>>,
    <<11379, <<11378>>>>, <<11382, <<11381>>>>, <<11393, <<11392>>>>,
    <<11395, <<11394>>>>, <<11397, <<11396>>>>, <<11399, <<11398>>>>,
    <<11401, <<11400>>>>, <<11403, <<11402>>>>, <<11405, <<11404>>>>,
    <<11407, <<11406>>>>, <<11409, <<11408>>>>, <<11411, <<11410>>>>,
    <<11413, <<11412>>>>, <<11415, <<11414>>>>, <<11417, <<11416>>>>,
    <<11419, <<11418>>>>, <<11421, <<11420>>>>, <<11423, <<11422>>>>,
    <<11425, <<11424>>>>, <<11427, <<11426>>>>, <<11429, <<11428>>>>,
    <<11431, <<11430>>>>, <<11433, <<11432>>>>, <<11435, <<11434>>>>,
    <<11437, <<11436>>>>, <<11439, <<11438>>>>, <<11441, <<11440>>>>,
    <<11443, <<11442>>>>, <<11445, <<11444>>>>, <<11447, <<11446>>>>,
    <<11449, <<11448>>>>, <<11451, <<11450>>>>, <<11453, <<11452>>>>,
    <<11455, <<11454>>>>, <<11457, <<11456>>>>, <<11459, <<11458>>>>,
    <<11461, <<11460>>>>, <<11463, <<11462>>>>, <<11465, <<11464>>>>,
    <<11467, <<11466>>>>, <<11469, <<11468>>>>, <<11471, <<11470>>>>,
    <<11473, <<11472>>>>, <<11475, <<11474>>>>, <<11477, <<11476>>>>,
    <<11479, <<11478>>>>, <<11481, <<11480>>>>, <<11483, <<11482>>>>,
    <<11485, <<11484>>>>, <<11487, <<11486>>>>, <<11489, <<11488>>>>,
    <<11491, <<11490>>>>, <<11500, <<11499>>>>, <<11502, <<11501>>>>,
    <<11507, <<11506>>>>, <<11520, <<4256>>>>, <<11521, <<4257>>>>,
    <<11522, <<4258>>>>, <<11523, <<4259>>>>, <<11524, <<4260>>>>,
    <<11525, <<4261>>>>, <<11526, <<4262>>>>, <<11527, <<4263>>>>,
    <<11528, <<4264>>>>, <<11529, <<4265>>>>, <<11530, <<4266>>>>,
    <<11531, <<4267>>>>, <<11532, <<4268>>>>, <<11533, <<4269>>>>,
    <<11534, <<4270>>>>, <<11535, <<4271>>>>, <<11536, <<4272>>>>,
    <<11537, <<4273>>>>, <<11538, <<4274>>>>, <<11539, <<4275>>>>,
    <<11540, <<4276>>>>, <<11541, <<4277>>>>, <<11542, <<4278>>>>,
    <<11543, <<4279>>>>, <<11544, <<4280>>>>, <<11545, <<4281>>>>,
    <<11546, <<4282>>>>, <<11547, <<4283>>>>, <<11548, <<4284>>>>,
    <<11549, <<4285>>>>, <<11550, <<4286>>>>, <<11551, <<4287>>>>,
    <<11552, <<4288>>>>, <<11553, <<4289>>>>, <<11554, <<4290>>>>,
    <<11555, <<4291>>>>, <<11556, <<4292>>>>, <<11557, <<4293>>>>,
    <<11559, <<4295>>>>, <<11565, <<4301>>>>, <<42561, <<42560>>>>,
    <<42563, <<42562>>>>, <<42565, <<42564>>>>, <<42567, <<42566>>>>,
    <<42569, <<42568>>>>, <<42571, <<42570>>>>, <<42573, <<42572>>>>,
    <<42575, <<42574>>>>, <<42577, <<42576>>>>, <<42579, <<42578>>>>,
    <<42581, <<42580>>>>, <<42583, <<42582>>>>, <<42585, <<42584>>>>,
    <<42587, <<42586>>>>, <<42589, <<42588>>>>, <<42591, <<42590>>>>,
    <<42593, <<42592>>>>, <<42595, <<42594>>>>, <<42597, <<42596>>>>,
    <<42599, <<42598>>>>, <<42601, <<42600>>>>, <<42603, <<42602>>>>,
    <<42605, <<42604>>>>, <<42625, <<42624>>>>, <<42627, <<42626>>>>,
    <<42629, <<42628>>>>, <<42631, <<42630>>>>, <<42633, <<42632>>>>,
    <<42635, <<42634>>>>, <<42637, <<42636>>>>, <<42639, <<42638>>>>,
    <<42641, <<42640>>>>, <<42643, <<42642>>>>, <<42645, <<42644>>>>,
    <<42647, <<42646>>>>, <<42649, <<42648>>>>, <<42651, <<42650>>>>,
    <<42787, <<42786>>>>, <<42789, <<42788>>>>, <<42791, <<42790>>>>,
    <<42793, <<42792>>>>, <<42795, <<42794>>>>, <<42797, <<42796>>>>,
    <<42799, <<42798>>>>, <<42803, <<42802>>>>, <<42805, <<42804>>>>,
    <<42807, <<42806>>>>, <<42809, <<42808>>>>, <<42811, <<42810>>>>,
    <<42813, <<42812>>>>, <<42815, <<42814>>>>, <<42817, <<42816>>>>,
    <<42819, <<42818>>>>, <<42821, <<42820>>>>, <<42823, <<42822>>>>,
    <<42825, <<42824>>>>, <<42827, <<42826>>>>, <<42829, <<42828>>>>,
    <<42831, <<42830>>>>, <<42833, <<42832>>>>, <<42835, <<42834>>>>,
    <<42837, <<42836>>>>, <<42839, <<42838>>>>, <<42841, <<42840>>>>,
    <<42843, <<42842>>>>, <<42845, <<42844>>>>, <<42847, <<42846>>>>,
    <<42849, <<42848>>>>, <<42851, <<42850>>>>, <<42853, <<42852>>>>,
    <<42855, <<42854>>>>, <<42857, <<42856>>>>, <<42859, <<42858>>>>,
    <<42861, <<42860>>>>, <<42863, <<42862>>>>, <<42874, <<42873>>>>,
    <<42876, <<42875>>>>, <<42879, <<42878>>>>, <<42881, <<42880>>>>,
    <<42883, <<42882>>>>, <<42885, <<42884>>>>, <<42887, <<42886>>>>,
    <<42892, <<42891>>>>, <<42897, <<42896>>>>, <<42899, <<42898>>>>,
    <<42900, <<42948>>>>, <<42903, <<42902>>>>, <<42905, <<42904>>>>,
    <<42907, <<42906>>>>, <<42909, <<42908>>>>, <<42911, <<42910>>>>,
    <<42913, <<42912>>>>, <<42915, <<42914>>>>, <<42917, <<42916>>>>,
    <<42919, <<42918>>>>, <<42921, <<42920>>>>, <<42933, <<42932>>>>,
    <<42935, <<42934>>>>, <<42937, <<42936>>>>, <<42939, <<42938>>>>,
    <<42941, <<42940>>>>, <<42943, <<42942>>>>, <<42945, <<42944>>>>,
    <<42947, <<42946>>>>, <<42952, <<42951>>>>, <<42954, <<42953>>>>,
    <<42957, <<42956>>>>, <<42959, <<42958>>>>, <<42961, <<42960>>>>,
    <<42963, <<42962>>>>, <<42965, <<42964>>>>, <<42967, <<42966>>>>,
    <<42969, <<42968>>>>, <<42971, <<42970>>>>, <<42998, <<42997>>>>,
    <<43859, <<42931>>>>, <<43888, <<5024>>>>, <<43889, <<5025>>>>,
    <<43890, <<5026>>>>, <<43891, <<5027>>>>, <<43892, <<5028>>>>,
    <<43893, <<5029>>>>, <<43894, <<5030>>>>, <<43895, <<5031>>>>,
    <<43896, <<5032>>>>, <<43897, <<5033>>>>, <<43898, <<5034>>>>,
    <<43899, <<5035>>>>, <<43900, <<5036>>>>, <<43901, <<5037>>>>,
    <<43902, <<5038>>>>, <<43903, <<5039>>>>, <<43904, <<5040>>>>,
    <<43905, <<5041>>>>, <<43906, <<5042>>>>, <<43907, <<5043>>>>,
    <<43908, <<5044>>>>, <<43909, <<5045>>>>, <<43910, <<5046>>>>,
    <<43911, <<5047>>>>, <<43912, <<5048>>>>, <<43913, <<5049>>>>,
    <<43914, <<5050>>>>, <<43915, <<5051>>>>, <<43916, <<5052>>>>,
    <<43917, <<5053>>>>, <<43918, <<5054>>>>, <<43919, <<5055>>>>,
    <<43920, <<5056>>>>, <<43921, <<5057>>>>, <<43922, <<5058>>>>,
    <<43923, <<5059>>>>, <<43924, <<5060>>>>, <<43925, <<5061>>>>,
    <<43926, <<5062>>>>, <<43927, <<5063>>>>, <<43928, <<5064>>>>,
    <<43929, <<5065>>>>, <<43930, <<5066>>>>, <<43931, <<5067>>>>,
    <<43932, <<5068>>>>, <<43933, <<5069>>>>, <<43934, <<5070>>>>,
    <<43935, <<5071>>>>, <<43936, <<5072>>>>, <<43937, <<5073>>>>,
    <<43938, <<5074>>>>, <<43939, <<5075>>>>, <<43940, <<5076>>>>,
    <<43941, <<5077>>>>, <<43942, <<5078>>>>, <<43943, <<5079>>>>,
    <<43944, <<5080>>>>, <<43945, <<5081>>>>, <<43946, <<5082>>>>,
    <<43947, <<5083>>>>, <<43948, <<5084>>>>, <<43949, <<5085>>>>,
    <<43950, <<5086>>>>, <<43951, <<5087>>>>, <<43952, <<5088>>>>,
    <<43953, <<5089>>>>, <<43954, <<5090>>>>, <<43955, <<5091>>>>,
    <<43956, <<5092>>>>, <<43957, <<5093>>>>, <<43958, <<5094>>>>,
    <<43959, <<5095>>>>, <<43960, <<5096>>>>, <<43961, <<5097>>>>,
    <<43962, <<5098>>>>, <<43963, <<5099>>>>, <<43964, <<5100>>>>,
    <<43965, <<5101>>>>, <<43966, <<5102>>>>, <<43967, <<5103>>>>,
    <<64256, <<70, 70>>>>, <<64257, <<70, 73>>>>, <<64258, <<70, 76>>>>,
    <<64259, <<70, 70, 73>>>>, <<64260, <<70, 70, 76>>>>, <<64261, <<83, 84>>>>,
    <<64262, <<83, 84>>>>, <<64275, <<1348, 1350>>>>, <<64276, <<1348, 1333>>>>,
    <<64277, <<1348, 1339>>>>, <<64278, <<1358, 1350>>>>,
    <<64279, <<1348, 1341>>>>, <<65345, <<65313>>>>, <<65346, <<65314>>>>,
    <<65347, <<65315>>>>, <<65348, <<65316>>>>, <<65349, <<65317>>>>,
    <<65350, <<65318>>>>, <<65351, <<65319>>>>, <<65352, <<65320>>>>,
    <<65353, <<65321>>>>, <<65354, <<65322>>>>, <<65355, <<65323>>>>,
    <<65356, <<65324>>>>, <<65357, <<65325>>>>, <<65358, <<65326>>>>,
    <<65359, <<65327>>>>, <<65360, <<65328>>>>, <<65361, <<65329>>>>,
    <<65362, <<65330>>>>, <<65363, <<65331>>>>, <<65364, <<65332>>>>,
    <<65365, <<65333>>>>, <<65366, <<65334>>>>, <<65367, <<65335>>>>,
    <<65368, <<65336>>>>, <<65369, <<65337>>>>, <<65370, <<65338>>>>,
    <<66600, <<66560>>>>, <<66601, <<66561>>>>, <<66602, <<66562>>>>,
    <<66603, <<66563>>>>, <<66604, <<66564>>>>, <<66605, <<66565>>>>,
    <<66606, <<66566>>>>, <<66607, <<66567>>>>, <<66608, <<66568>>>>,
    <<66609, <<66569>>>>, <<66610, <<66570>>>>, <<66611, <<66571>>>>,
    <<66612, <<66572>>>>, <<66613, <<66573>>>>, <<66614, <<66574>>>>,
    <<66615, <<66575>>>>, <<66616, <<66576>>>>, <<66617, <<66577>>>>,
    <<66618, <<66578>>>>, <<66619, <<66579>>>>, <<66620, <<66580>>>>,
    <<66621, <<66581>>>>, <<66622, <<66582>>>>, <<66623, <<66583>>>>,
    <<66624, <<66584>>>>, <<66625, <<66585>>>>, <<66626, <<66586>>>>,
    <<66627, <<66587>>>>, <<66628, <<66588>>>>, <<66629, <<66589>>>>,
    <<66630, <<66590>>>>, <<66631, <<66591>>>>, <<66632, <<66592>>>>,
    <<66633, <<66593>>>>, <<66634, <<66594>>>>, <<66635, <<66595>>>>,
    <<66636, <<66596>>>>, <<66637, <<66597>>>>, <<66638, <<66598>>>>,
    <<66639, <<66599>>>>, <<66776, <<66736>>>>, <<66777, <<66737>>>>,
    <<66778, <<66738>>>>, <<66779, <<66739>>>>, <<66780, <<66740>>>>,
    <<66781, <<66741>>>>, <<66782, <<66742>>>>, <<66783, <<66743>>>>,
    <<66784, <<66744>>>>, <<66785, <<66745>>>>, <<66786, <<66746>>>>,
    <<66787, <<66747>>>>, <<66788, <<66748>>>>, <<66789, <<66749>>>>,
    <<66790, <<66750>>>>, <<66791, <<66751>>>>, <<66792, <<66752>>>>,
    <<66793, <<66753>>>>, <<66794, <<66754>>>>, <<66795, <<66755>>>>,
    <<66796, <<66756>>>>, <<66797, <<66757>>>>, <<66798, <<66758>>>>,
    <<66799, <<66759>>>>, <<66800, <<66760>>>>, <<66801, <<66761>>>>,
    <<66802, <<66762>>>>, <<66803, <<66763>>>>, <<66804, <<66764>>>>,
    <<66805, <<66765>>>>, <<66806, <<66766>>>>, <<66807, <<66767>>>>,
    <<66808, <<66768>>>>, <<66809, <<66769>>>>, <<66810, <<66770>>>>,
    <<66811, <<66771>>>>, <<66967, <<66928>>>>, <<66968, <<66929>>>>,
    <<66969, <<66930>>>>, <<66970, <<66931>>>>, <<66971, <<66932>>>>,
    <<66972, <<66933>>>>, <<66973, <<66934>>>>, <<66974, <<66935>>>>,
    <<66975, <<66936>>>>, <<66976, <<66937>>>>, <<66977, <<66938>>>>,
    <<66979, <<66940>>>>, <<66980, <<66941>>>>, <<66981, <<66942>>>>,
    <<66982, <<66943>>>>, <<66983, <<66944>>>>, <<66984, <<66945>>>>,
    <<66985, <<66946>>>>, <<66986, <<66947>>>>, <<66987, <<66948>>>>,
    <<66988, <<66949>>>>, <<66989, <<66950>>>>, <<66990, <<66951>>>>,
    <<66991, <<66952>>>>, <<66992, <<66953>>>>, <<66993, <<66954>>>>,
    <<66995, <<66956>>>>, <<66996, <<66957>>>>, <<66997, <<66958>>>>,
    <<66998, <<66959>>>>, <<66999, <<66960>>>>, <<67000, <<66961>>>>,
    <<67001, <<66962>>>>, <<67003, <<66964>>>>, <<67004, <<66965>>>>,
    <<68800, <<68736>>>>, <<68801, <<68737>>>>, <<68802, <<68738>>>>,
    <<68803, <<68739>>>>, <<68804, <<68740>>>>, <<68805, <<68741>>>>,
    <<68806, <<68742>>>>, <<68807, <<68743>>>>, <<68808, <<68744>>>>,
    <<68809, <<68745>>>>, <<68810, <<68746>>>>, <<68811, <<68747>>>>,
    <<68812, <<68748>>>>, <<68813, <<68749>>>>, <<68814, <<68750>>>>,
    <<68815, <<68751>>>>, <<68816, <<68752>>>>, <<68817, <<68753>>>>,
    <<68818, <<68754>>>>, <<68819, <<68755>>>>, <<68820, <<68756>>>>,
    <<68821, <<68757>>>>, <<68822, <<68758>>>>, <<68823, <<68759>>>>,
    <<68824, <<68760>>>>, <<68825, <<68761>>>>, <<68826, <<68762>>>>,
    <<68827, <<68763>>>>, <<68828, <<68764>>>>, <<68829, <<68765>>>>,
    <<68830, <<68766>>>>, <<68831, <<68767>>>>, <<68832, <<68768>>>>,
    <<68833, <<68769>>>>, <<68834, <<68770>>>>, <<68835, <<68771>>>>,
    <<68836, <<68772>>>>, <<68837, <<68773>>>>, <<68838, <<68774>>>>,
    <<68839, <<68775>>>>, <<68840, <<68776>>>>, <<68841, <<68777>>>>,
    <<68842, <<68778>>>>, <<68843, <<68779>>>>, <<68844, <<68780>>>>,
    <<68845, <<68781>>>>, <<68846, <<68782>>>>, <<68847, <<68783>>>>,
    <<68848, <<68784>>>>, <<68849, <<68785>>>>, <<68850, <<68786>>>>,
    <<68976, <<68944>>>>, <<68977, <<68945>>>>, <<68978, <<68946>>>>,
    <<68979, <<68947>>>>, <<68980, <<68948>>>>, <<68981, <<68949>>>>,
    <<68982, <<68950>>>>, <<68983, <<68951>>>>, <<68984, <<68952>>>>,
    <<68985, <<68953>>>>, <<68986, <<68954>>>>, <<68987, <<68955>>>>,
    <<68988, <<68956>>>>, <<68989, <<68957>>>>, <<68990, <<68958>>>>,
    <<68991, <<68959>>>>, <<68992, <<68960>>>>, <<68993, <<68961>>>>,
    <<68994, <<68962>>>>, <<68995, <<68963>>>>, <<68996, <<68964>>>>,
    <<68997, <<68965>>>>, <<71872, <<71840>>>>, <<71873, <<71841>>>>,
    <<71874, <<71842>>>>, <<71875, <<71843>>>>, <<71876, <<71844>>>>,
    <<71877, <<71845>>>>, <<71878, <<71846>>>>, <<71879, <<71847>>>>,
    <<71880, <<71848>>>>, <<71881, <<71849>>>>, <<71882, <<71850>>>>,
    <<71883, <<71851>>>>, <<71884, <<71852>>>>, <<71885, <<71853>>>>,
    <<71886, <<71854>>>>, <<71887, <<71855>>>>, <<71888, <<71856>>>>,
    <<71889, <<71857>>>>, <<71890, <<71858>>>>, <<71891, <<71859>>>>,
    <<71892, <<71860>>>>, <<71893, <<71861>>>>, <<71894, <<71862>>>>,
    <<71895, <<71863>>>>, <<71896, <<71864>>>>, <<71897, <<71865>>>>,
    <<71898, <<71866>>>>, <<71899, <<71867>>>>, <<71900, <<71868>>>>,
    <<71901, <<71869>>>>, <<71902, <<71870>>>>, <<71903, <<71871>>>>,
    <<93792, <<93760>>>>, <<93793, <<93761>>>>, <<93794, <<93762>>>>,
    <<93795, <<93763>>>>, <<93796, <<93764>>>>, <<93797, <<93765>>>>,
    <<93798, <<93766>>>>, <<93799, <<93767>>>>, <<93800, <<93768>>>>,
    <<93801, <<93769>>>>, <<93802, <<93770>>>>, <<93803, <<93771>>>>,
    <<93804, <<93772>>>>, <<93805, <<93773>>>>, <<93806, <<93774>>>>,
    <<93807, <<93775>>>>, <<93808, <<93776>>>>, <<93809, <<93777>>>>,
    <<93810, <<93778>>>>, <<93811, <<93779>>>>, <<93812, <<93780>>>>,
    <<93813, <<93781>>>>, <<93814, <<93782>>>>, <<93815, <<93783>>>>,
    <<93816, <<93784>>>>, <<93817, <<93785>>>>, <<93818, <<93786>>>>,
    <<93819, <<93787>>>>, <<93820, <<93788>>>>, <<93821, <<93789>>>>,
    <<93822, <<93790>>>>, <<93823, <<93791>>>>, <<93883, <<93856>>>>,
    <<93884, <<93857>>>>, <<93885, <<93858>>>>, <<93886, <<93859>>>>,
    <<93887, <<93860>>>>, <<93888, <<93861>>>>, <<93889, <<93862>>>>,
    <<93890, <<93863>>>>, <<93891, <<93864>>>>, <<93892, <<93865>>>>,
    <<93893, <<93866>>>>, <<93894, <<93867>>>>, <<93895, <<93868>>>>,
    <<93896, <<93869>>>>, <<93897, <<93870>>>>, <<93898, <<93871>>>>,
    <<93899, <<93872>>>>, <<93900, <<93873>>>>, <<93901, <<93874>>>>,
    <<93902, <<93875>>>>, <<93903, <<93876>>>>, <<93904, <<93877>>>>,
    <<93905, <<93878>>>>, <<93906, <<93879>>>>, <<93907, <<93880>>>>,
    <<125218, <<125184>>>>, <<125219, <<125185>>>>, <<125220, <<125186>>>>,
    <<125221, <<125187>>>>, <<125222, <<125188>>>>, <<125223, <<125189>>>>,
    <<125224, <<125190>>>>, <<125225, <<125191>>>>, <<125226, <<125192>>>>,
    <<125227, <<125193>>>>, <<125228, <<125194>>>>, <<125229, <<125195>>>>,
    <<125230, <<125196>>>>, <<125231, <<125197>>>>, <<125232, <<125198>>>>,
    <<125233, <<125199>>>>, <<125234, <<125200>>>>, <<125235, <<125201>>>>,
    <<125236, <<125202>>>>, <<125237, <<125203>>>>, <<125238, <<125204>>>>,
    <<125239, <<125205>>>>, <<125240, <<125206>>>>, <<125241, <<125207>>>>,
    <<125242, <<125208>>>>, <<125243, <<125209>>>>, <<125244, <<125210>>>>,
    <<125245, <<125211>>>>, <<125246, <<125212>>>>, <<125247, <<125213>>>>,
    <<125248, <<125214>>>>, <<125249, <<125215>>>>, <<125250, <<125216>>>>,
    <<125251, <<125217>>>>
  >>

\* The position of c in UPPERCASE_TABLE between lo and hi, 0 when absent.
RECURSIVE uppercase_search(_, _, _)
uppercase_search(c, lo, hi) ==
  IF lo > hi THEN 0
  ELSE LET mid == (lo + hi) \div 2 IN
       IF UPPERCASE_TABLE[mid][1] = c THEN mid
       ELSE IF UPPERCASE_TABLE[mid][1] < c THEN uppercase_search(c, mid + 1, hi)
       ELSE uppercase_search(c, lo, mid - 1)

char_to_uppercase(c) ==
  IF c < 128
  THEN IF c \in 97 .. 122 THEN <<c - 32>> ELSE <<c>>   \* a..z
  ELSE LET i == uppercase_search(c, 1, Len(UPPERCASE_TABLE)) IN
       IF i = 0 THEN <<c>> ELSE UPPERCASE_TABLE[i][2]

to_uppercase(s) == Flatten([i \in DOMAIN s |-> char_to_uppercase(s[i])])

-----------------------------------------------------------------------------
(* KeyCode::resolve.  The value is the returned string together with the    *)
(* keys the call passed to try_resolve, in call order.                      *)

\* Fault variant of resolve: the layout is queried whatever the class.
resolve_any_class(k, lay) ==
  LET resolved == try_resolve(lay, k) IN
  IF resolved # None
  THEN [ret |-> IF resolved[1] # SharpS THEN to_uppercase(resolved[1])
                ELSE resolved[1],
        queries |-> <<k>>]
  ELSE [ret |-> as_str(k), queries |-> <<k>>]

\* Fault variant of resolve: an absent layout answer yields the empty string
\* (unwrap_or_default) instead of the baseline label.
resolve_no_fallback(k, lay) ==
  IF classify(k) = "WritingSystem"
  THEN LET resolved == try_resolve(lay, k) IN
       IF resolved # None
       THEN [ret |-> IF resolved[1] # SharpS THEN to_uppercase(resolved[1])
                     ELSE resolved[1],
             queries |-> <<k>>]
       ELSE [ret |-> <<>>, queries |-> <<k>>]
  ELSE [ret |-> as_str(k), queries |-> <<>>]

\* Fault variant of resolve: every layout answer is upper-cased, sharp s too.
resolve_uppercase_all(k, lay) ==
  IF classify(k) = "WritingSystem"
  THEN LET resolved == try_resolve(lay, k) IN
       IF resolved # None
       THEN [ret |-> to_uppercase(resolved[1]), queries |-> <<k>>]
       ELSE [ret |-> as_str(k), queries |-> <<k>>]
  ELSE [ret |-> as_str(k), queries |-> <<>>]

resolve(k, lay) ==
  IF classify(k) = "WritingSystem"
  THEN LET resolved == try_resolve(lay, k) IN
       IF resolved # None
       THEN [ret |-> IF resolved[1] # SharpS THEN to_uppercase(resolved[1])
                     ELSE resolved[1],
             queries |-> <<k>>]
       ELSE [ret |-> as_str(k), queries |-> <<k>>]
  ELSE [ret |-> as_str(k), queries |-> <<>>]

-----------------------------------------------------------------------------
(* Inputs of from_str: every pattern of its arms, every variant name, and   *)
(* texts that differ from accepted ones by case, whitespace, a prefix, a    *)
(* suffix, or that are display labels or names used by other environments.  *)

Patterns == UNION {from_str_arms[i][1] : i \in DOMAIN from_str_arms}

OtherTexts ==
  { "", " ", "NotARealKey", "keya", "KEYA", "Keya", "KeyA ", " KeyA", "Key", "KeyAA",
    "a", "b", "c", "d", "e", "f", "g", "h", "i", "j", "k", "l", "m", "n", "o", "p", "q",
    "r", "s", "t", "u", "v", "w", "x", "y", "z", "AA", "10", "00", "-1", " 0", "0 ",
    "digit0", "Digit", "Digit10", "DIGIT0", "osleft", "OSleft", "OsLeft", "OS", "Meta",
    "MetaLeft ", "metaleft", "Volume", "volumeup", "VolumeUP", "AudioVolume",
    "LaunchMediaplayer", "launchmediaplayer", "MediaPlayer", "HangulMode", "Hanja",
    "Cancel", "Unidentified", "F0", "F25", "f1", "Gamepad20", "Gamepad", "gamepad0",
    "Numpad10", "NumpadMultiply ", "Alt Left", "Numpad 0", "Page Down", "Escape\n",
    "`", "\\", "[", "]", ",", "=", "-", ".", "'", ";", "/", "Esc", "Return", "Ctrl" }

Inputs == Patterns \cup {Variants[i] : i \in DOMAIN Variants} \cup OtherTexts

-----------------------------------------------------------------------------
(* The state machine.  A client is given one input, a text or a key, and    *)
(* applies the operations to it.  A text is parsed; the key that was parsed *)
(* can be serialized and the text that was emitted can be parsed again (a   *)
(* chain, as when a configuration is loaded and saved).  A key is           *)
(* serialized, or classified, labelled and resolved any number of times,    *)
(* while the platform's active layout changes at any time.                  *)

\* The threads.
Threads == 1 .. NumThreads

\* A thread that has made no call.
Idle ==
  [pc |-> "idle", fn |-> "", in_text |-> "", key |-> None, arm |-> 0,
   parsed |-> <<>>, class |-> "", label |-> <<>>]

\* The last two entries of a sequence.
LastTwo(q) == IF Len(q) <= 2 THEN q ELSE SubSeq(q, Len(q) - 1, Len(q))

Init ==
  /\ op = "init"
  /\ \/ in_text \in Inputs /\ key = None
     \/ in_text = "" /\ key \in {Some(k) : k \in KeyCode}
  /\ parsed = <<>>
  /\ out_text = ""
  /\ class = ""
  /\ label = <<>>
  /\ queried = <<>>
  /\ layout \in Layouts
  /\ depth = 0
  /\ recent = <<>>
  /\ threads = [t \in Threads |-> Idle]

\* in_text.parse::<KeyCode>() on the text the client was given.
FromStrGiven ==
  /\ op = "init"
  /\ key = None
  /\ op' = "from_str"
  /\ parsed' = from_str(in_text)
  /\ depth' = 1
  /\ UNCHANGED <<in_text, key, out_text, class, label, queried, layout>>
  /\ UNCHANGED <<recent, threads>>

\* out_text.parse::<KeyCode>() on the text the last serialization emitted.
FromStrEmitted ==
  /\ op = "serialize"
  /\ depth < MaxChain
  /\ op' = "from_str"
  /\ in_text' = out_text
  /\ parsed' = from_str(out_text)
  /\ depth' = depth + 1
  /\ UNCHANGED <<key, out_text, class, label, queried, layout>>
  /\ UNCHANGED <<recent, threads>>

\* Serialization of the key the client was given.
SerializeGiven ==
  /\ op = "init"
  /\ key # None
  /\ op' = "serialize"
  /\ out_text' = Serialize(key[1])
  /\ depth' = 1
  /\ UNCHANGED <<in_text, parsed, key, class, label, queried, layout>>
  /\ UNCHANGED <<recent, threads>>

\* Serialization of the key the last from_str call returned.
SerializeParsed ==
  /\ op = "from_str"
  /\ parsed # Err
  /\ depth < MaxChain
  /\ op' = "serialize"
  /\ key' = Some(parsed[2])
  /\ out_text' = Serialize(parsed[2])
  /\ depth' = depth + 1
  /\ UNCHANGED <<in_text, parsed, class, label, queried, layout>>
  /\ UNCHANGED <<recent, threads>>

\* key.classify()
Classify ==
  /\ key # None
  /\ depth = 0
  /\ op' = "classify"
  /\ class' = classify(key[1])
  /\ queried' = <<>>
  /\ UNCHANGED <<in_text, parsed, key, out_text, label, layout, depth>>
  /\ UNCHANGED <<recent, threads>>

\* key.as_str()
AsStr ==
  /\ key # None
  /\ depth = 0
  /\ op' = "as_str"
  /\ label' = as_str(key[1])
  /\ queried' = <<>>
  /\ UNCHANGED <<in_text, parsed, key, out_text, class, layout, depth>>
  /\ UNCHANGED <<recent, threads>>

\* Fault variant of Resolve: the result of the previous resolve call is kept
\* and returned again without a layout query.
Resolve_cached ==
  /\ key # None
  /\ depth = 0
  /\ op' = "resolve"
  /\ label' = IF recent # <<>> THEN recent[Len(recent)].ret
              ELSE resolve(key[1], layout).ret
  /\ queried' = IF recent # <<>> THEN <<>> ELSE resolve(key[1], layout).queries
  /\ recent' = LastTwo(Append(recent, [layout |-> layout, ret |-> label']))
  /\ UNCHANGED <<in_text, parsed, key, out_text, class, layout, depth, threads>>

\* key.resolve()
Resolve ==
  /\ key # None
  /\ depth = 0
  /\ op' = "resolve"
  /\ label' = resolve(key[1], layout).ret
  /\ queried' = resolve(key[1], layout).queries
  /\ recent' = LastTwo(Append(recent, [layout |-> layout, ret |-> label']))
  /\ UNCHANGED <<in_text, parsed, key, out_text, class, layout, depth, threads>>

\* The user switches the keyboard layout of the platform.
SetLayout(lay) ==
  /\ lay # layout
  /\ op' = "set_layout"
  /\ layout' = lay
  /\ UNCHANGED <<in_text, parsed, key, out_text, class, label, queried, depth>>
  /\ UNCHANGED <<recent, threads>>

Next ==
  \/ FromStrGiven
  \/ FromStrEmitted
  \/ SerializeGiven
  \/ SerializeParsed
  \/ Classify
  \/ AsStr
  \/ Resolve
  \/ \E lay \in Layouts : SetLayout(lay)

Spec == Init /\ [][Next]_vars

-----------------------------------------------------------------------------
(* Concurrent callers.  from_str, classify and as_str take their argument   *)
(* by value or shared reference and hold no static, cell or lock: a call's  *)
(* frame is its argument, the arm of the match under test and its return    *)
(* value.  Each thread runs calls one after the other; a call is one step   *)
(* to enter the function and then one step per match arm tested, top to     *)
(* bottom, so the calls of different threads interleave arm by arm.  The    *)
(* arm tables are constants.  That the frames are private is read off the   *)
(* source and is part of these definitions: that a call's result does not   *)
(* depend on the other threads follows from them for any arm tables, so no  *)
(* such statement is checked here.                                          *)

\* Arguments the threads pass: a text matching the first arm, one matching a
\* later arm, an alias and a text no arm matches; keys of the first three
\* classes; keys of the first three labels.
FromStrArgs == {"Backquote", "Backspace", "0", "keya"}
ClassifyArgs == {V("Backquote"), V("AltLeft"), V("Delete")}
AsStrArgs == {V("Backquote"), V("Backslash"), V("Backspace")}

InitThreads ==
  /\ op = "init"
  /\ in_text = ""
  /\ key = None
  /\ parsed = <<>>
  /\ out_text = ""
  /\ class = ""
  /\ label = <<>>
  /\ queried = <<>>
  /\ layout = "Unavailable"
  /\ depth = 0
  /\ recent = <<>>
  /\ threads = [t \in Threads |-> Idle]

\* Thread t enters s.parse::<KeyCode>().
CallFromStr(t, s) ==
  /\ threads[t].pc # "matching"
  /\ threads' = [threads EXCEPT ![t] =
       [Idle EXCEPT !.pc = "matching", !.fn = "from_str", !.in_text = s, !.arm = 1]]
  /\ UNCHANGED <<op, in_text, parsed, key, out_text, class, label, queried, layout,
                 depth, recent>>

\* Thread t tests the next arm of from_str's match against its text, and
\* returns at the first arm that matches or at the catch-all arm.
FromStrArm(t) ==
  /\ threads[t].pc = "matching"
  /\ threads[t].fn = "from_str"
  /\ LET f == threads[t] IN
     threads' = [threads EXCEPT ![t] =
       IF f.arm > Len(from_str_arms)
         THEN [f EXCEPT !.pc = "returned", !.parsed = Err]
       ELSE IF f.in_text \in from_str_arms[f.arm][1]
         THEN [f EXCEPT !.pc = "returned", !.parsed = Ok(from_str_arms[f.arm][2])]
       ELSE [f EXCEPT !.arm = @ + 1]]
  /\ UNCHANGED <<op, in_text, parsed, key, out_text, class, label, queried, layout,
                 depth, recent>>

\* Thread t enters k.classify().
CallClassify(t, k) ==
  /\ threads[t].pc # "matching"
  /\ threads' = [threads EXCEPT ![t] =
       [Idle EXCEPT !.pc = "matching", !.fn = "classify", !.key = Some(k), !.arm = 1]]
  /\ UNCHANGED <<op, in_text, parsed, key, out_text, class, label, queried, layout,
                 depth, recent>>

\* Thread t tests the next arm of classify's match against its key.
ClassifyArm(t) ==
  /\ threads[t].pc = "matching"
  /\ threads[t].fn = "classify"
  /\ LET f == threads[t] IN
     threads' = [threads EXCEPT ![t] =
       IF f.arm > Len(classify_arms)
         THEN [f EXCEPT !.pc = "returned", !.class = NonExhaustive]
       ELSE IF f.key[1] \in classify_arms[f.arm][1]
         THEN [f EXCEPT !.pc = "returned", !.class = classify_arms[f.arm][2]]
       ELSE [f EXCEPT !.arm = @ + 1]]
  /\ UNCHANGED <<op, in_text, parsed, key, out_text, class, label, queried, layout,
                 depth, recent>>

\* Thread t enters k.as_str().
CallAsStr(t, k) ==
  /\ threads[t].pc # "matching"
  /\ threads' = [threads EXCEPT ![t] =
       [Idle EXCEPT !.pc = "matching", !.fn = "as_str", !.key = Some(k), !.arm = 1]]
  /\ UNCHANGED <<op, in_text, parsed, key, out_text, class, label, queried, layout,
                 depth, recent>>

\* Thread t tests the next arm of as_str's match against its key.
AsStrArm(t) ==
  /\ threads[t].pc = "matching"
  /\ threads[t].fn = "as_str"
  /\ LET f == threads[t] IN
     threads' = [threads EXCEPT ![t] =
       IF f.arm > Len(as_str_arms)
         THEN [f EXCEPT !.pc = "returned"]
       ELSE IF f.key[1] = as_str_arms[f.arm][1]
         THEN [f EXCEPT !.pc = "returned", !.label = as_str_arms[f.arm][2]]
       ELSE [f EXCEPT !.arm = @ + 1]]
  /\ UNCHANGED <<op, in_text, parsed, key, out_text, class, label, queried, layout,
                 depth, recent>>

NextThreads ==
  \E t \in Threads :
    \/ \E s \in FromStrArgs : CallFromStr(t, s)
    \/ FromStrArm(t)
    \/ \E k \in ClassifyArgs : CallClassify(t, k)
    \/ ClassifyArm(t)
    \/ \E k \in AsStrArgs : CallAsStr(t, k)
    \/ AsStrArm(t)

SpecThreads == InitThreads /\ [][NextThreads]_vars

-----------------------------------------------------------------------------
(* Vocabulary of the properties.                                            *)

\* The canonical names: the names of the enum's variants.
CanonicalNames == {Variants[i] : i \in DOMAIN Variants}

Digits == {"0", "1", "2", "3", "4", "5", "6", "7", "8", "9"}

Letters ==
  {"A", "B", "C", "D", "E", "F", "G", "H", "I", "J", "K", "L", "M",
   "N", "O", "P", "Q", "R", "S", "T", "U", "V", "W", "X", "Y", "Z"}

\* The documented aliases: <<accepted spelling, canonical name>>.
Aliases ==
  {<<d, "Digit" \o d>> : d \in Digits}
    \cup {<<c, "Key" \o c>> : c \in Letters}
    \cup { <<"OSLeft", "MetaLeft">>, <<"OSRight", "MetaRight">>,
           <<"VolumeDown", "AudioVolumeDown">>, <<"VolumeMute", "AudioVolumeMute">>,
           <<"VolumeUp", "AudioVolumeUp">>, <<"LaunchMediaPlayer", "MediaSelect">> }

AliasTexts == {a[1] : a \in Aliases}

\* The class documented for each section of the enum declaration.
SectionClass ==
  { <<"Writing System Keys", "WritingSystem">>,
    <<"Functional Keys", "Functional">>,
    <<"Functional Keys found on Japanese and Korean keyboards", "Functional">>,
    <<"Control Pad Section", "ControlPad">>,
    <<"Arrow Pad Section", "ArrowPad">>,
    <<"Numpad Section", "Numpad">>,
    <<"Function Section", "Function">>,
    <<"Media Keys", "Media">>,
    <<"Legacy, Non-Standard and Special Keys", "Legacy">>,
    <<"Gamepad Keys", "Gamepad">>,
    <<"Chrome only Keys", "NonStandard">> }

\* The class documented for the section under which k is declared.
DeclaredClass(k) ==
  LET d == CHOOSE i \in DOMAIN KeyCodeDecl :
             \E j \in DOMAIN KeyCodeDecl[i].variants :
               KeyCodeDecl[i].variants[j] = Variants[k + 1]
  IN (CHOOSE e \in SectionClass : e[1] = KeyCodeDecl[d].section)[2]

Modifiers ==
  {V("AltLeft"), V("AltRight"), V("ControlLeft"), V("ControlRight"), V("ShiftLeft"),
   V("ShiftRight"), V("MetaLeft"), V("MetaRight"), V("CapsLock")}

\* A Rust string: a finite sequence of Unicode scalar values.
IsString(x) ==
  /\ DOMAIN x = 1 .. Len(x)
  /\ \A i \in DOMAIN x :
       /\ 0 <= x[i] /\ x[i] <= 1114111
       /\ ~(55296 <= x[i] /\ x[i] <= 57343)

-----------------------------------------------------------------------------
(* C1 Name round-trip.  Whenever the text that serialization emitted for a  *)
(* key k is parsed, from_str returns Ok(k): the name of every identity is   *)
(* in the parser table and parses to that identity and no other.            *)

C1_NameRoundTrip ==
  (op = "from_str" /\ depth >= 2) =>
    /\ in_text = Serialize(key[1])
    /\ parsed = Ok(key[1])

C1_Witness ==
  /\ op = "from_str"
  /\ depth = 2
  /\ key = Some(V("NumpadStar"))
  /\ in_text = "NumpadStar"
  /\ parsed = Ok(V("NumpadStar"))

(* C2 Alias uniqueness.  Whatever text is parsed, at most one arm of the    *)
(* parser table lists it: no accepted string is registered for two          *)
(* identities, and the first-match rule never shadows an arm.               *)

C2_AliasUniqueness ==
  op = "from_str" =>
    /\ Cardinality(from_str_matching(in_text)) <= 1
    /\ \A i, j \in from_str_matching(in_text) :
         from_str_arms[i][2] = from_str_arms[j][2]

C2_Witness ==
  /\ op = "from_str"
  /\ in_text = "VolumeUp"
  /\ Cardinality(from_str_matching(in_text)) = 1
  /\ parsed = Ok(V("AudioVolumeUp"))

(* C3 Unknown input.  A text that is neither a canonical name nor one of    *)
(* the documented aliases is rejected with Err(()); no identity is returned *)
(* for it.  Texts that differ from an accepted one only in case or in       *)
(* surrounding whitespace are among the rejected ones.                      *)

C3_UnknownInput ==
  (op = "from_str" /\ in_text \notin CanonicalNames \cup AliasTexts) =>
    parsed = Err

C3_Witness ==
  /\ op = "from_str"
  /\ in_text = " KeyA"
  /\ parsed = Err

(* C4 Alias resolution.  Each documented alias parses to the identity named *)
(* by its canonical name, the same identity that canonical name parses to,  *)
(* and an accepted text that is not a canonical name is one of the 42       *)
(* documented aliases.                                                      *)

C4_AliasResolution ==
  op = "from_str" =>
    /\ \A a \in Aliases :
         in_text = a[1] => parsed = Ok(V(a[2])) /\ parsed = from_str(a[2])
    /\ (parsed # Err /\ in_text \notin CanonicalNames) => in_text \in AliasTexts
    /\ Cardinality(AliasTexts) = 42

C4_Witness ==
  /\ op = "from_str"
  /\ in_text = "LaunchMediaPlayer"
  /\ parsed = Ok(V("MediaSelect"))
  /\ parsed = from_str("MediaSelect")

(* C5 Stable output.  The text emitted for a parsed key is a canonical      *)
(* name, never an alias; it equals the text that was parsed exactly when    *)
(* that text is a canonical name; and emitting after parsing an emitted     *)
(* text gives that text again (parse-then-serialize is idempotent).         *)

C5_StableOutput ==
  (op = "serialize" /\ depth >= 2) =>
    /\ out_text \in CanonicalNames
    /\ out_text \notin AliasTexts
    /\ (out_text = in_text) <=> (in_text \in CanonicalNames)
    /\ depth >= 3 => out_text = in_text

C5_Witness ==
  /\ op = "serialize"
  /\ depth = 2
  /\ in_text = "7"
  /\ parsed = Ok(V("Digit7"))
  /\ out_text = "Digit7"

\* The classes classify returns for some identity.
ClassesInUse == {classify(k) : k \in KeyCode}

(* C6 Partition.  classify puts every identity in exactly one of the ten    *)
(* classes: exactly one arm lists the identity, and every class is the      *)
(* class of some identity.                                                  *)

C6_Partition ==
  /\ op = "classify" =>
       /\ class \in KeyCodeClass
       /\ Cardinality(classify_matching(key[1])) = 1
  /\ Cardinality(KeyCodeClass) = 10
  /\ KeyCodeClass \subseteq ClassesInUse

C6_Witness ==
  /\ op = "classify"
  /\ key = Some(V("MediaPlayPause"))
  /\ class = "Media"

(* C7 Class boundaries.  The class of an identity is the one documented for *)
(* the section of the enum under which it is declared; KeyA is              *)
(* WritingSystem, F5 Function, Gamepad10 Gamepad, ArrowUp ArrowPad, and the *)
(* modifier keys are Functional.                                            *)

C7_ClassBoundaries ==
  op = "classify" =>
    /\ class = DeclaredClass(key[1])
    /\ key = Some(V("KeyA")) => class = "WritingSystem"
    /\ key = Some(V("F5")) => class = "Function"
    /\ key = Some(V("Gamepad10")) => class = "Gamepad"
    /\ key = Some(V("ArrowUp")) => class = "ArrowPad"
    /\ key[1] \in Modifiers => class = "Functional"
    /\ key = Some(V("Lang1")) => class = "Functional"
    /\ key = Some(V("ZoomToggle")) => class = "NonStandard"

C7_Witness ==
  /\ op = "classify"
  /\ key = Some(V("ShiftLeft"))
  /\ class = "Functional"

(* C8 Totality and non-empty labels.  as_str has an arm for every identity  *)
(* and the label it returns is a string of at least one char.               *)

C8_NonEmptyLabel ==
  op = "as_str" =>
    /\ as_str_matching(key[1]) # {}
    /\ IsString(label)
    /\ Len(label) >= 1

C8_Witness ==
  /\ op = "as_str"
  /\ key = Some(V("Space"))
  /\ label = <<83, 112, 97, 99, 101>>

(* C9 Non-writing-system layout independence.  For an identity outside      *)
(* class WritingSystem resolve returns the baseline label and issues no     *)
(* layout query, whatever the active layout answers; for an identity of     *)
(* class WritingSystem (Backspace, IntlBackslash, IntlRo and IntlYen        *)
(* included) it issues the query for that identity.                         *)

C9_LayoutIndependence ==
  /\ op = "resolve" =>
       /\ classify(key[1]) # "WritingSystem" =>
            label = as_str(key[1]) /\ queried = <<>>
       /\ classify(key[1]) = "WritingSystem" => queried = <<key[1]>>
       /\ key[1] \in {V("Backspace"), V("IntlBackslash"), V("IntlRo"), V("IntlYen")} =>
            queried = <<key[1]>>

C9_Witness ==
  /\ op = "resolve"
  /\ layout = "Qwertz"
  /\ key = Some(V("NumpadDecimal"))
  /\ try_resolve(layout, key[1]) = Some(<<44>>)
  /\ label = as_str(V("NumpadDecimal"))
  /\ queried = <<>>

(* C10 Layout fallback.  For an identity of class WritingSystem, when the   *)
(* layout query answers nothing resolve returns the baseline label; resolve *)
(* always returns a string.                                                 *)

C10_LayoutFallback ==
  op = "resolve" =>
    /\ IsString(label)
    /\ (classify(key[1]) = "WritingSystem" /\ try_resolve(layout, key[1]) = None) =>
         label = as_str(key[1])

C10_Witness ==
  /\ op = "resolve"
  /\ layout = "Unavailable"
  /\ key = Some(V("KeyA"))
  /\ queried = <<V("KeyA")>>
  /\ label = <<65>>

(* C11 Layout exception.  For an identity of class WritingSystem, when the  *)
(* layout query answers sharp s resolve returns sharp s unchanged, and when *)
(* it answers another glyph resolve returns that glyph upper-cased (the     *)
(* Unicode upper case of each of its chars).                                *)

\* Unicode upper case of the glyphs the layouts answer: <<glyph, upper case>>.
UpperCased ==
  { <<<<97>>, <<65>>>>,     \* a -> A
    <<<<109>>, <<77>>>>,    \* m -> M
    <<<<113>>, <<81>>>>,    \* q -> Q
    <<<<119>>, <<87>>>>,    \* w -> W
    <<<<121>>, <<89>>>>,    \* y -> Y
    <<<<122>>, <<90>>>>,    \* z -> Z
    <<<<49>>, <<49>>>>,     \* 1 -> 1
    <<<<44>>, <<44>>>>,     \* , -> ,
    <<<<228>>, <<196>>>>,   \* \u{e4} -> \u{c4}
    <<<<246>>, <<214>>>>,   \* \u{f6} -> \u{d6}
    <<<<252>>, <<220>>>>,   \* \u{fc} -> \u{dc}
    <<<<224>>, <<192>>>>,   \* \u{e0} -> \u{c0}
    <<<<231>>, <<199>>>>,   \* \u{e7} -> \u{c7}
    <<<<232>>, <<200>>>>,   \* \u{e8} -> \u{c8}
    <<<<233>>, <<201>>>>,   \* \u{e9} -> \u{c9}
    <<<<945>>, <<913>>>>,   \* \u{3b1} alpha -> \u{391}
    <<<<963>>, <<931>>>>,   \* \u{3c3} sigma -> \u{3a3}
    <<<<962>>, <<931>>>>,   \* \u{3c2} final sigma -> \u{3a3}
    <<<<59>>, <<59>>>>,     \* ; -> ;
    <<<<900>>, <<900>>>> }  \* \u{384} tonos -> tonos

C11_LayoutException ==
  (op = "resolve" /\ classify(key[1]) = "WritingSystem"
     /\ try_resolve(layout, key[1]) # None) =>
    LET g == try_resolve(layout, key[1])[1] IN
    /\ g = <<223>> => label = <<223>>
    /\ g # <<223>> => \E e \in UpperCased : e[1] = g /\ label = e[2]

\* The statement with its parenthesis read as a property of the value: the
\* result for a glyph other than sharp s is its upper case and differs from
\* the glyph and from the baseline label.
C11_UpperCasedDiffers ==
  (op = "resolve" /\ classify(key[1]) = "WritingSystem"
     /\ try_resolve(layout, key[1]) # None) =>
    LET g == try_resolve(layout, key[1])[1] IN
    /\ g = <<223>> => label = <<223>>
    /\ g # <<223>> =>
         /\ \E e \in UpperCased : e[1] = g /\ label = e[2]
         /\ label # g
         /\ label # as_str(key[1])

C11_Witness ==
  /\ op = "resolve"
  /\ layout = "Qwertz"
  /\ key = Some(V("Minus"))
  /\ try_resolve(layout, key[1]) = Some(<<223>>)
  /\ queried = <<V("Minus")>>
  /\ label = <<223>>

(* C12 Writing-system baseline labels.  For an identity of class            *)
(* WritingSystem other than IntlBackslash, as_str returns the single        *)
(* character of the key on the US layout (upper-case letter, digit,         *)
(* punctuation mark) or the single glyph of the key (erase-to-the-left      *)
(* U+232B for Backspace, hiragana ro U+308D for IntlRo, the yen sign U+A5   *)
(* for IntlYen); for IntlBackslash it returns the phrase                    *)
(* "International Backslash".                                               *)

\* The character or glyph of each writing system key: <<variant, char>>.
USGlyph ==
  {
    <<"Backquote", 96>>, <<"Backslash", 92>>, <<"Backspace", 9003>>, <<"BracketLeft", 91>>,
    <<"BracketRight", 93>>, <<"Comma", 44>>, <<"Digit0", 48>>, <<"Digit1", 49>>,
    <<"Digit2", 50>>, <<"Digit3", 51>>, <<"Digit4", 52>>, <<"Digit5", 53>>,
    <<"Digit6", 54>>, <<"Digit7", 55>>, <<"Digit8", 56>>, <<"Digit9", 57>>,
    <<"Equal", 61>>, <<"IntlRo", 12429>>, <<"IntlYen", 165>>, <<"KeyA", 65>>,
    <<"KeyB", 66>>, <<"KeyC", 67>>, <<"KeyD", 68>>, <<"KeyE", 69>>, <<"KeyF", 70>>,
    <<"KeyG", 71>>, <<"KeyH", 72>>, <<"KeyI", 73>>, <<"KeyJ", 74>>, <<"KeyK", 75>>,
    <<"KeyL", 76>>, <<"KeyM", 77>>, <<"KeyN", 78>>, <<"KeyO", 79>>, <<"KeyP", 80>>,
    <<"KeyQ", 81>>, <<"KeyR", 82>>, <<"KeyS", 83>>, <<"KeyT", 84>>, <<"KeyU", 85>>,
    <<"KeyV", 86>>, <<"KeyW", 87>>, <<"KeyX", 88>>, <<"KeyY", 89>>, <<"KeyZ", 90>>,
    <<"Minus", 45>>, <<"Period", 46>>, <<"Quote", 39>>, <<"Semicolon", 59>>,
    <<"Slash", 47>>
  }

InternationalBackslash ==
  <<73, 110, 116, 101, 114, 110, 97, 116, 105, 111, 110, 97, 108, 32, 66,
    97, 99, 107, 115, 108, 97, 115, 104>>

C12_WritingSystemLabels ==
  (op = "as_str" /\ classify(key[1]) = "WritingSystem") =>
    IF key[1] = V("IntlBackslash")
    THEN label = InternationalBackslash
    ELSE /\ Len(label) = 1
         /\ \E e \in USGlyph : V(e[1]) = key[1] /\ label = <<e[2]>>

\* The statement as made for every writing system key: a single character
\* or glyph.
C12_SingleGlyph ==
  (op = "as_str" /\ classify(key[1]) = "WritingSystem") => Len(label) = 1

C12_Witness ==
  /\ op = "as_str"
  /\ key = Some(V("Backquote"))
  /\ class = "WritingSystem"
  /\ label = <<96>>

(* C13 No caching.  In any sequence of resolve calls and layout changes, a  *)
(* resolve call on an identity of class WritingSystem issues exactly one    *)
(* layout query, for that identity, and returns what the layout active at   *)
(* the call answers (upper-cased, sharp s excepted, the baseline label when *)
(* it answers nothing), whatever an earlier call returned.                  *)

\* The label of a writing system key under a layout.
LayoutLabel(k, lay) ==
  LET a == try_resolve(lay, k) IN
  IF a = None THEN as_str(k)
  ELSE IF a[1] = <<223>> THEN <<223>>
  ELSE (CHOOSE e \in UpperCased : e[1] = a[1])[2]

C13_NoCaching ==
  (op = "resolve" /\ classify(key[1]) = "WritingSystem") =>
    /\ queried = <<key[1]>>
    /\ label = LayoutLabel(key[1], layout)
    /\ recent # <<>>
    /\ recent[Len(recent)] = [layout |-> layout, ret |-> label]
    /\ \A i \in 1 .. (Len(recent) - 1) :
         /\ recent[i].ret = LayoutLabel(key[1], recent[i].layout)
         /\ LayoutLabel(key[1], recent[i].layout) # LayoutLabel(key[1], layout) =>
              label # recent[i].ret

C13_Witness ==
  /\ op = "resolve"
  /\ key = Some(V("KeyZ"))
  /\ Len(recent) = 2
  /\ recent[1] = [layout |-> "Azerty", ret |-> <<87>>]
  /\ layout = "Qwertz"
  /\ queried = <<V("KeyZ")>>
  /\ label = <<89>>

(* C15 Injective labels.  The label as_str returns for a key is the label   *)
(* of no other key: two distinct identities never have the same baseline    *)
(* label.                                                                   *)

\* The baseline label of every key.
BaselineLabels == [k \in KeyCode |-> as_str(k)]

C15_InjectiveLabels ==
  op = "as_str" =>
    /\ label = BaselineLabels[key[1]]
    /\ \A k2 \in KeyCode \ {key[1]} : BaselineLabels[k2] # label

C15_Witness ==
  /\ op = "as_str"
  /\ key = Some(V("NumpadStar"))
  /\ label = <<78, 117, 109, 112, 97, 100, 32, 42, 32, 40, 83, 116, 97, 114, 41>>
  /\ BaselineLabels[V("NumpadMultiply")] = <<78, 117, 109, 112, 97, 100, 32, 42>>

=============================================================================
